---- MODULE Spec2Model ----
(***************************************************************************)
(* A model of duckai-cli: the chat orchestrator send_chat (src/src/chat.rs, *)
(* specification SpecChat), the challenge resolver handle_challenge with   *)
(* its web server (src/src/challenge.rs, SpecResolve), and the negotiator  *)
(* prepare_session with the pump loop of js::evaluate (src/src/vqd.rs and  *)
(* src/src/js/mod.rs, SpecNegotiate and SpecNegotiateFair, with the caller *)
(* `run` of src/src/main.rs, SpecRunFair), and the pure functions          *)
(* extract_fe_version (src/src/vqd.rs, SpecExtract) and                    *)
(* parse_tile_selection (src/src/util/mod.rs, SpecParse).  Each            *)
(* specification runs one component and holds the others still.            *)
(*                                                                         *)
(* Text is modelled as a sequence of one-element strings.  A response body *)
(* on the wire is a sequence of BYTES; what send_chat accumulates is a     *)
(* sequence of CHARS obtained by String::from_utf8_lossy, one chunk at a   *)
(* time.  Every ASCII byte is also the char it decodes to.  One two-byte   *)
(* character is modelled: the bytes LeadByte ContByte decode to EAcute,    *)
(* and either byte on its own decodes to Replacement (U+FFFD).             *)
(* Three ASCII runs are kept as one element each because nothing in        *)
(* chat.rs looks inside them: PackMember, the JSON member "p":"a-b" of a   *)
(* challenge payload; QueryOpen, the text ,"q":" that opens its query      *)
(* member; and DoneText, the text [DONE].                                  *)
(***************************************************************************)
EXTENDS Integers, Sequences, FiniteSets, TLC

VARIABLES
    pc,          \* where send_chat is: "send", "stream", "resolve", "done"
    attempt,     \* the loop index of `for attempt in 0..=MAX_RETRIES`
    status,      \* response.status().as_u16() of the current attempt
    body,        \* the accumulated String
    sse_buffer,  \* the rolling buffer of not-yet-framed chars
    event_tx,    \* the Option<mpsc::Sender>: "some" or "none"
    rxAlive,     \* whether the sink's receiver still exists
    sinkLog,     \* the messages the sink accepted, in order
    resp,        \* the bytes of the current response body on the wire
    frames,      \* the frames the backend built resp from
    terms,       \* the terminator the backend put after each frame
    pos,         \* how many bytes of resp have been read
    tears,       \* the chunk boundaries that fell inside a multi-byte character
    posts,       \* the chat POSTs issued so far
    resolverCalls, \* the calls of handle_challenge so far
    hist,        \* per attempt: its status, whether its body parsed, the resolver's answer
    log,         \* the tracing events of send_chat
    ret,         \* what send_chat returned
    vqd,         \* the VqdSession send_chat was called with
    sentHeaders, \* the token headers of each chat POST, in order
    \* handle_challenge and the challenge web server (src/src/challenge.rs)
    payload,     \* the parsed 418 body handed to handle_challenge
    tiles,       \* the tile ids extract_tiles found, in order
    hc_pc,       \* where handle_challenge is
    next_tile,   \* how many tiles save_challenge_assets has gone through
    assets,      \* the ChallengeAssets saved so far: [index, tile_id]
    hc_attempt,  \* `attempt` of handle_challenge
    use_web,     \* `use_web` of handle_challenge
    surface,     \* the web server task: "none", "running", "draining", "exited"
    selection_tx, \* the guarded Option<oneshot::Sender>: "some", "none", "dropped"
    selection_rx, \* the oneshot channel: what was sent through it, and whether it closed
    requests,    \* the POST /submit requests of this surface: position, selections, answer
    selected_indices, \* `selected_indices` of the current attempt
    selected_ids, \* the tile ids of the last verification request
    downloads,   \* the tile GETs sent so far
    surfaceStarts, \* the calls of ChallengeWebServer::start that succeeded
    prompts,     \* the calls of prompt_tile_selection
    collected,   \* how many times a selection was collected
    verifies,    \* the verification requests sent so far
    verified,    \* how the last verification request ended
    hc_ret,      \* what handle_challenge returned: "none", "true", "false", "error"
    \* prepare_session and js::evaluate (src/src/vqd.rs, src/src/js/mod.rs)
    ps_pc,       \* where prepare_session is
    steps,       \* the steps of prepare_session started so far, in order
    iterations,  \* `iterations` of the pump loop
    sleeps,      \* the calls of thread::sleep so far
    duckai_result, \* the global __duckai_result: "undefined", "wellformed", "malformed"
    duckai_error,  \* the global __duckai_error: "undefined" or "set"
    expired,     \* whether Instant::now() is past the deadline
    ev_ret,      \* what js::evaluate returned
    ps_ret,      \* what prepare_session returned
    client_hashes, \* `eval.client_hashes`: what the script left in the result
    hashed_client, \* `hashed_client` of prepare_session and of the VqdSession
    raw_client,  \* `raw_client` of the VqdSession
    run_pc,      \* where the caller of prepare_session is (`run` of main.rs)
    \* extract_fe_version (src/src/vqd.rs) and parse_tile_selection (src/src/util/mod.rs)
    html_parts,  \* the pieces the landing page is made of, in order
    html,        \* `html` of extract_fe_version
    fe_ret,      \* what extract_fe_version returned
    pt_input,    \* `input` of parse_tile_selection
    pt_len,      \* `len` of parse_tile_selection
    pt_ret,      \* what parse_tile_selection returned
    \* the two retry loops together: send_chat (src/src/chat.rs) around handle_challenge (src/src/challenge.rs)
    ly_pc,       \* where the call is: "send", "resolve", "done"
    ly_attempt,  \* `attempt` of send_chat
    ly_calls,    \* the calls of handle_challenge so far
    ly_hc_attempt,\* `attempt` of the running handle_challenge
    ly_rounds,   \* the selections asked for so far, over all calls
    ly_verifies, \* the verification requests sent so far, over all calls
    ly_ret,      \* what send_chat returned
    \* the HTTP facade: chat_completions and the tasks of a streaming request (src/src/server.rs)
    api_key,     \* `server_api_key`, an Option: <<>> or <<key>>
    request,     \* the request: its Authorization header, its body, what the body asks for
    fa_pc,       \* where the handler is
    fa_code,     \* the status of the response, 0 before it
    fa_work,     \* the upstream work started, in order
    wk_pc,       \* where the spawned task running stream_chat_worker is
    raw_tx,      \* the sender of the raw channel: "none", "some", "dropped"
    raw_rx,      \* the payloads in the raw channel
    forwarded,   \* the payloads send_chat was given by the upstream so far
    fm_pc,       \* where the formatter task is
    formatter,   \* the StreamFormatter: sent_role and finished
    fm_chunks,   \* the chunks the formatter task has still to send
    events       \* the public event stream, in order

\* the state of send_chat
chatVars == <<pc, attempt, status, body, sse_buffer, event_tx, rxAlive, sinkLog, resp,
              frames, terms, pos, tears, posts, resolverCalls, hist, log, ret,
              vqd, sentHeaders>>

\* the state of handle_challenge and its web server
resolveVars == <<payload, tiles, hc_pc, next_tile, assets, hc_attempt, use_web, surface,
                 selection_tx, selection_rx, requests, selected_indices, selected_ids,
                 downloads, surfaceStarts, prompts, collected, verifies, verified,
                 hc_ret>>

\* the state of prepare_session and the pump loop of js::evaluate
negotiateVars == <<ps_pc, steps, iterations, sleeps, duckai_result, duckai_error,
                   expired, ev_ret, ps_ret, client_hashes, hashed_client, raw_client,
                   run_pc>>

\* the argument and the result of extract_fe_version
extractVars == <<html_parts, html, fe_ret>>

\* the arguments and the result of parse_tile_selection
parseVars == <<pt_input, pt_len, pt_ret>>

\* the two retry loops together: send_chat (src/src/chat.rs) around handle_challenge (src/src/challenge.rs)
layerVars == <<ly_pc, ly_attempt, ly_calls, ly_hc_attempt, ly_rounds, ly_verifies, ly_ret>>

\* the HTTP facade: chat_completions and the tasks of a streaming request (src/src/server.rs)
facadeVars == <<api_key, request, fa_pc, fa_code, fa_work, wk_pc, raw_tx, raw_rx, forwarded, fm_pc, formatter, fm_chunks, events>>

vars == <<chatVars, resolveVars, negotiateVars, extractVars, parseVars,
         layerVars, facadeVars>>

\* what each component leaves alone
notChat == <<resolveVars, negotiateVars, extractVars, parseVars,
    layerVars, facadeVars>>
notResolve == <<chatVars, negotiateVars, extractVars, parseVars,
    layerVars, facadeVars>>
notNegotiate == <<chatVars, resolveVars, extractVars, parseVars,
    layerVars, facadeVars>>
notExtract == <<chatVars, resolveVars, negotiateVars, parseVars,
    layerVars, facadeVars>>
notParse == <<chatVars, resolveVars, negotiateVars, extractVars,
    layerVars, facadeVars>>
notLayers == <<chatVars, resolveVars, negotiateVars, extractVars, parseVars,
    facadeVars>>
notFacade == <<chatVars, resolveVars, negotiateVars, extractVars, parseVars, layerVars>>

---------------------------------------------------------------------------
(* Bounds of the model *)

\* the longest response body, in bytes
MaxBytes == 19
\* the most frames in one response body
MaxFrames == 2

---------------------------------------------------------------------------
(* Bytes and chars *)

CR == "\r"
LF == "\n"
SP == " "
LeadByte == "xC3"
ContByte == "xA9"
EAcute == "e-acute"
Replacement == "U+FFFD"
PackMember == "\"p\":\"a-b\""
QueryOpen == ",\"q\":\""
Quote == "\""
DoneText == "[DONE]"

DataPrefix == <<"d", "a", "t", "a", ":">>
DoneSentinel == <<DoneText>>

Min(S) == CHOOSE x \in S : \A y \in S : x <= y

RECURSIVE Concat(_)
Concat(ss) == IF ss = <<>> THEN <<>> ELSE Head(ss) \o Concat(Tail(ss))

\* String::from_utf8_lossy on one chunk of bytes
RECURSIVE from_utf8_lossy(_)
from_utf8_lossy(bytes) ==
    IF bytes = <<>> THEN <<>>
    ELSE IF Len(bytes) >= 2 /\ bytes[1] = LeadByte /\ bytes[2] = ContByte
         THEN <<EAcute>> \o from_utf8_lossy(SubSeq(bytes, 3, Len(bytes)))
    ELSE IF bytes[1] \in {LeadByte, ContByte}
         THEN <<Replacement>> \o from_utf8_lossy(Tail(bytes))
    ELSE <<bytes[1]>> \o from_utf8_lossy(Tail(bytes))

\* str::find: the offset of the first occurrence of pat, or -1
Find(s, pat) ==
    LET at == {i \in 0..(Len(s) - Len(pat)) : SubSeq(s, i + 1, i + Len(pat)) = pat}
    IN  IF at = {} THEN -1 ELSE Min(at)

\* str::split_inclusive('\n')
RECURSIVE SplitInclusive(_)
SplitInclusive(s) ==
    IF s = <<>> THEN <<>>
    ELSE LET p == Find(s, <<LF>>)
         IN  IF p = -1 THEN <<s>>
             ELSE <<SubSeq(s, 1, p + 1)>> \o SplitInclusive(SubSeq(s, p + 2, Len(s)))

\* what str::lines does to one piece of split_inclusive: drop a final \n, then a final
\* \r before it (emit_event_block trims every trailing \r of the line afterwards)
StripLineEnding(l) ==
    IF l # <<>> /\ l[Len(l)] = LF
    THEN LET m == SubSeq(l, 1, Len(l) - 1)
         IN  IF m # <<>> /\ m[Len(m)] = CR THEN SubSeq(m, 1, Len(m) - 1) ELSE m
    ELSE l

\* str::lines
Lines(s) ==
    LET pieces == SplitInclusive(s)
    IN  [i \in 1..Len(pieces) |-> StripLineEnding(pieces[i])]

\* str::trim_end_matches('\r')
RECURSIVE TrimEndCR(_)
TrimEndCR(l) ==
    IF l # <<>> /\ l[Len(l)] = CR THEN TrimEndCR(SubSeq(l, 1, Len(l) - 1)) ELSE l

\* str::trim_start: leading white space goes
RECURSIVE TrimStart(_)
TrimStart(l) ==
    IF l # <<>> /\ l[1] \in {SP, CR, LF} THEN TrimStart(Tail(l)) ELSE l

\* str::strip_prefix("data:")
HasDataPrefix(l) ==
    Len(l) >= Len(DataPrefix) /\ SubSeq(l, 1, Len(DataPrefix)) = DataPrefix

AfterDataPrefix(l) == SubSeq(l, Len(DataPrefix) + 1, Len(l))

---------------------------------------------------------------------------
(* The sink.  A send succeeds while the receiver exists.  `budget` is the  *)
(* number of sends that still succeed before the receiver is dropped; -1   *)
(* says that the receiver outlives the step.                               *)

Alive(budget) == budget = -1 \/ budget > 0
Spend(budget, n) == IF budget = -1 THEN -1 ELSE budget - n

\* the payloads of the data lines of a block, in order
DataPayloads(block) ==
    LET ls == Lines(block)
        trimmed == [i \in 1..Len(ls) |-> TrimEndCR(ls[i])]
        datas == SelectSeq(trimmed, HasDataPrefix)
    IN  [i \in 1..Len(datas) |-> TrimStart(AfterDataPrefix(datas[i]))]

\* emit_event_block: send each data payload; stop at the first send that fails
emit_event_block(block, budget) ==
    LET ps == DataPayloads(block)
        n  == IF budget = -1 \/ budget >= Len(ps) THEN Len(ps) ELSE budget
    IN  [ok |-> n = Len(ps), sent |-> SubSeq(ps, 1, n)]

\* a variant of extract_event_block that takes both terminators to be 4 chars wide
extract_event_block_SameWidth(buffer) ==
    LET crlf == Find(buffer, <<CR, LF, CR, LF>>)
        lf   == Find(buffer, <<LF, LF>>)
    IN  IF crlf # -1
        THEN [some |-> TRUE, block |-> SubSeq(buffer, 1, crlf), consumed |-> crlf + 4]
        ELSE IF lf # -1
        THEN [some |-> TRUE, block |-> SubSeq(buffer, 1, lf), consumed |-> lf + 4]
        ELSE [some |-> FALSE, block |-> <<>>, consumed |-> 0]

\* extract_event_block: the first CRLFCRLF if there is one, else the first LFLF
extract_event_block(buffer) ==
    LET crlf == Find(buffer, <<CR, LF, CR, LF>>)
        lf   == Find(buffer, <<LF, LF>>)
    IN  IF crlf # -1
        THEN [some |-> TRUE, block |-> SubSeq(buffer, 1, crlf), consumed |-> crlf + 4]
        ELSE IF lf # -1
        THEN [some |-> TRUE, block |-> SubSeq(buffer, 1, lf), consumed |-> lf + 2]
        ELSE [some |-> FALSE, block |-> <<>>, consumed |-> 0]

\* the loop of forward_sse_payloads, on the buffer the chunk was appended to
RECURSIVE ForwardLoop(_, _, _)
ForwardLoop(buffer, budget, sent) ==
    LET e == extract_event_block(buffer)
    IN  IF ~e.some THEN [ok |-> TRUE, buffer |-> buffer, sent |-> sent]
        ELSE LET r == emit_event_block(e.block, budget)
             IN  IF ~r.ok
                 THEN [ok |-> FALSE, buffer |-> buffer, sent |-> sent \o r.sent]
                 ELSE ForwardLoop(IF e.consumed >= Len(buffer) THEN <<>>
                                  ELSE SubSeq(buffer, e.consumed + 1, Len(buffer)),
                                  Spend(budget, Len(r.sent)), sent \o r.sent)

\* a variant of forward_sse_payloads that takes one block per chunk
forward_sse_payloads_Once(buffer, chunk, budget) ==
    LET e == extract_event_block(buffer \o chunk)
        r == emit_event_block(e.block, budget)
    IN  IF ~e.some THEN [ok |-> TRUE, buffer |-> buffer \o chunk, sent |-> <<>>]
        ELSE [ok |-> r.ok, sent |-> r.sent,
              buffer |-> IF r.ok THEN SubSeq(buffer \o chunk, e.consumed + 1,
                                             Len(buffer) + Len(chunk))
                         ELSE buffer \o chunk]

forward_sse_payloads(buffer, chunk, budget) == ForwardLoop(buffer \o chunk, budget, <<>>)

---------------------------------------------------------------------------
(* The challenge payload *)

IsWhite(c) == c \in {SP, CR, LF}

RECURSIVE TrimEnd(_)
TrimEnd(l) == IF l # <<>> /\ IsWhite(l[Len(l)]) THEN TrimEnd(SubSeq(l, 1, Len(l) - 1)) ELSE l

Trim(l) == TrimEnd(TrimStart(l))

\* the chars a JSON string may hold as they are
IsStringChar(c) == c \notin {CR, LF, Quote, QueryOpen, PackMember}

\* a serde_json::Value as handle_challenge reads it: its pack field "p", and the
\* pack field of its member "cd" when it has one
Value(hasP, p, hasCd, cdHasP, cdP) ==
    [ok |-> TRUE, hasP |-> hasP, p |-> p, hasCd |-> hasCd, cdHasP |-> cdHasP, cdP |-> cdP]
NoValue == [ok |-> FALSE, hasP |-> FALSE, p |-> <<>>, hasCd |-> FALSE, cdHasP |-> FALSE,
            cdP |-> <<>>]

\* serde_json::from_str::<Value>: over the bytes of this model the JSON texts are the
\* objects {}, {"p":"a-b"} and {"p":"a-b","q":"<text>"}, with white space around the
\* tokens
from_str(text) ==
    LET t     == Trim(text)
        inner == Trim(SubSeq(t, 2, Len(t) - 1))
        rest  == TrimStart(Tail(inner))
        pack  == Value(TRUE, <<"a", "-", "b">>, FALSE, FALSE, <<>>)
    IN  IF Len(t) < 2 \/ t[1] # "{" \/ t[Len(t)] # "}" THEN NoValue
        ELSE IF inner = <<>> THEN Value(FALSE, <<>>, FALSE, FALSE, <<>>)
        ELSE IF inner[1] # PackMember THEN NoValue
        ELSE IF rest = <<>> THEN pack
        ELSE IF /\ Len(rest) >= 2
                /\ rest[1] = QueryOpen
                /\ rest[Len(rest)] = Quote
                /\ \A i \in 2..(Len(rest) - 1) : IsStringChar(rest[i])
             THEN pack
        ELSE NoValue

\* `payload.get("cd").unwrap_or(payload)`
Challenge(value) ==
    IF value.hasCd THEN [hasP |-> value.cdHasP, p |-> value.cdP]
    ELSE [hasP |-> value.hasP, p |-> value.p]

\* str::split('-')
RECURSIVE Split(_)
Split(s) ==
    LET h == Find(s, <<"-">>)
    IN  IF h = -1 THEN <<s>>
        ELSE <<SubSeq(s, 1, h)>> \o Split(SubSeq(s, h + 2, Len(s)))

NonBlank(s) == Trim(s) # <<>>

\* a variant of extract_tiles that keeps the blank pieces
extract_tiles_KeepBlank(challenge) ==
    LET pieces == Split(IF challenge.hasP THEN challenge.p ELSE <<>>)
    IN  [i \in 1..Len(pieces) |-> Trim(pieces[i])]

\* extract_tiles: the pack field (or "") split at its hyphens, the blank pieces
\* dropped, the others trimmed
extract_tiles(challenge) ==
    LET pieces == SelectSeq(Split(IF challenge.hasP THEN challenge.p ELSE <<>>), NonBlank)
    IN  [i \in 1..Len(pieces) |-> Trim(pieces[i])]

\* what handle_challenge can answer: Ok(false) at once without tiles, else
\* Ok(true), Ok(false) or an error
handle_challenge(value) ==
    IF extract_tiles(Challenge(value)) = <<>> THEN {"false"} ELSE {"true", "false", "error"}

---------------------------------------------------------------------------
(* The responses of the backend *)

Statuses == {200, 418, 500}

\* the frames of an event stream: data lines with a multi-byte character, a stray
\* CR, the text [DONE], a comment line before the data line, and the empty frame
StreamFrames ==
    { DataPrefix \o <<SP, LeadByte, ContByte>>,
      DataPrefix \o <<"B", CR>>,
      DataPrefix \o <<DoneText>>,
      <<"A", LF>> \o DataPrefix \o <<"B">>,
      <<>> }

\* the JSON texts of a challenge: with tiles, with tiles and a query text, without
ChallengeFrames ==
    { <<"{", PackMember, "}">>,
      <<"{", PackMember, QueryOpen, LeadByte, ContByte, Quote, "}">>,
      <<"{", "}">> }

\* a 200 is an event stream; any other status carries a challenge or an event stream
FrameSet(st) == IF st = 200 THEN StreamFrames ELSE StreamFrames \cup ChallengeFrames

Terminators == {"lf", "crlf"}

TermBytes(t) ==
    CASE t = "lf" -> <<LF, LF>>
      [] t = "crlf" -> <<CR, LF, CR, LF>>
      [] OTHER -> <<>>

Assemble(fs, ts) == Concat([i \in 1..Len(fs) |-> fs[i] \o TermBytes(ts[i])])

\* the streams of at most n terminated frames and at most cap bytes, as <<frames, terms>>
RECURSIVE Terminated(_, _, _)
Terminated(fset, n, cap) ==
    {<< <<>>, <<>> >>} \cup
    (IF n = 0 THEN {}
     ELSE UNION { { << <<ft[1]>> \o s[1], <<ft[2]>> \o s[2] >> :
                      s \in Terminated(fset, n - 1,
                                       cap - Len(ft[1]) - Len(TermBytes(ft[2]))) } :
                  ft \in {x \in fset \X Terminators :
                            Len(x[1]) + Len(TermBytes(x[2])) <= cap} })

\* a body: terminated frames, or terminated frames and a last frame with no terminator
BodiesUpTo(fset, n, cap) ==
    Terminated(fset, n, cap) \cup
    { << Append(s[1], f), Append(s[2], "none") >> :
        s \in Terminated(fset, n - 1, cap), f \in fset \ {<<>>} }

Bodies(st) ==
    LET cap == IF st = 200 THEN MaxBytes ELSE MaxBytes \div 2
    IN  {b \in BodiesUpTo(FrameSet(st), MaxFrames, cap) : Len(Assemble(b[1], b[2])) <= cap}

---------------------------------------------------------------------------
(* send_chat *)

MAX_RETRIES_Three == 2 + 1
MAX_RETRIES == 2

NoReturn == [kind |-> "none", status |-> 0, body |-> <<>>, error |-> ""]
Response(st, b) == [kind |-> "response", status |-> st, body |-> b, error |-> ""]
Failure(e) == [kind |-> "error", status |-> 0, body |-> <<>>, error |-> e]

\* the result after the loop ran out of attempts
RetryExhausted_AsResponse == Response(status, body)
RetryExhausted == Failure("Reached maximum chat retries after handling challenge")

\* whether this attempt forwards to the sink
Forwarding_AnyStatus(st, tx) == tx = "some"
Forwarding_Not418(st, tx) == st # 418 /\ tx = "some"
Forwarding(st, tx) == st = 200 /\ tx = "some"

\* after the stream of a 200 attempt: the trailing frame, then the sentinel
FinishStream_NoFlush(buffer, budget) ==
    IF Alive(budget) THEN <<DoneSentinel>> ELSE <<>>
FinishStream(buffer, budget) ==
    LET r == IF buffer # <<>> THEN emit_event_block(buffer, budget)
             ELSE [ok |-> TRUE, sent |-> <<>>]
    IN  r.sent \o (IF Alive(Spend(budget, Len(r.sent))) THEN <<DoneSentinel>> ELSE <<>>)

\* after forward_sse_payloads: a failed send drops the sender and the buffer, and
\* the response is still read to its end
ClientDropped_StopReading(ok) ==
    IF ok THEN [tx |-> "some", clear |-> FALSE, stop |-> FALSE]
    ELSE [tx |-> "none", clear |-> TRUE, stop |-> TRUE]
ClientDropped(ok) ==
    IF ok THEN [tx |-> "some", clear |-> FALSE, stop |-> FALSE]
    ELSE [tx |-> "none", clear |-> TRUE, stop |-> FALSE]

\* after the stream: a 418 whose body parsed goes to the resolver, all else returns
AfterStream_Any418(st, parsed) == IF st = 418 THEN "resolve" ELSE "return"
AfterStream(st, parsed) == IF st = 418 /\ parsed THEN "resolve" ELSE "return"

\* `if solved { continue; }`
Retry_Unsolved(solved) == solved \in {"true", "false"}
Retry(solved) == solved = "true"

\* the budgets a step that tries n sends can meet
Budgets(n) == IF rxAlive THEN {-1} \cup 0..(n - 1) ELSE {0}

\* the budgets of reading the next n bytes
ChunkBudgets(n) ==
    IF Forwarding(status, event_tx)
    THEN Budgets(Len(forward_sse_payloads(sse_buffer,
                        from_utf8_lossy(SubSeq(resp, pos + 1, pos + n)), -1).sent))
    ELSE {-1}

\* the budgets of the end of the stream
FinishBudgets ==
    IF Forwarding(status, event_tx)
    THEN Budgets(Len(FinishStream(sse_buffer, -1)))
    ELSE {-1}

SetLast(h, field, v) == [h EXCEPT ![Len(h)] = [@ EXCEPT ![field] = v]]

\* handle_challenge not called
ResolveIdle ==
    /\ payload = NoValue
    /\ tiles = <<>>
    /\ hc_pc = "idle"
    /\ next_tile = 0
    /\ assets = <<>>
    /\ hc_attempt = 0
    /\ use_web = TRUE
    /\ surface = "none"
    /\ selection_tx = "none"
    /\ selection_rx = [sent |-> <<>>, closed |-> FALSE]
    /\ requests = <<>>
    /\ selected_indices = <<>>
    /\ selected_ids = <<>>
    /\ downloads = 0
    /\ surfaceStarts = 0
    /\ prompts = 0
    /\ collected = 0
    /\ verifies = 0
    /\ verified = "none"
    /\ hc_ret = "none"

\* prepare_session not called
NegotiateIdle ==
    /\ ps_pc = "idle"
    /\ steps = <<>>
    /\ iterations = 0
    /\ sleeps = 0
    /\ duckai_result = "undefined"
    /\ duckai_error = "undefined"
    /\ expired = FALSE
    /\ ev_ret = "none"
    /\ ps_ret = "none"
    /\ client_hashes = <<>>
    /\ hashed_client = <<>>
    /\ raw_client = <<>>
    /\ run_pc = "idle"

\* the two loops not entered
LayersIdle ==
    /\ ly_pc = "idle"
    /\ ly_attempt = 0
    /\ ly_calls = 0
    /\ ly_hc_attempt = 0
    /\ ly_rounds = 0
    /\ ly_verifies = 0
    /\ ly_ret = "none"

\* no request at the facade
FacadeIdle ==
    /\ api_key = <<>>
    /\ request = [authorization |-> <<>>, body |-> "request", stream |-> FALSE,
                  validation |-> "ok"]
    /\ fa_pc = "idle"
    /\ fa_code = 0
    /\ fa_work = <<>>
    /\ wk_pc = "idle"
    /\ raw_tx = "none"
    /\ raw_rx = <<>>
    /\ forwarded = 0
    /\ fm_pc = "idle"
    /\ formatter = [sent_role |-> FALSE, finished |-> FALSE]
    /\ fm_chunks = <<>>
    /\ events = <<>>

\* no result of extract_fe_version, none of parse_tile_selection
NoVersion == [kind |-> "none", value |-> <<>>, error |-> ""]
NotParsed == [done |-> FALSE, indices |-> <<>>]

\* extract_fe_version not called
ExtractIdle ==
    /\ html_parts = <<>>
    /\ html = <<>>
    /\ fe_ret = NoVersion

\* parse_tile_selection not called
ParseIdle ==
    /\ pt_input = <<>>
    /\ pt_len = 0
    /\ pt_ret = NotParsed

\* the VqdSession of a call: an encoded header value and a frontend version
VqdSession(vqd_header, fe_version) ==
    [vqd_header |-> vqd_header, fe_version |-> fe_version]

NoSession == VqdSession("", "")

Sessions == { VqdSession("eyJzZXJ2ZXJfaGFzaGVzIjpbXX0=", "abcdef-12345") }

\* the token headers of the request built in turn `n` of the loop
Headers_PerAttempt(session, n) ==
    [x_fe_version |-> session.fe_version,
     x_vqd_hash_1 |-> IF n = 0 THEN session.vqd_header ELSE "refreshed"]
Headers(session, n) ==
    [x_fe_version |-> session.fe_version, x_vqd_hash_1 |-> session.vqd_header]

Init ==
    /\ pc = "send"
    /\ attempt = 0
    /\ status = 0
    /\ body = <<>>
    /\ sse_buffer = <<>>
    /\ event_tx \in {"some", "none"}
    /\ rxAlive = (event_tx = "some")
    /\ sinkLog = <<>>
    /\ resp = <<>>
    /\ frames = <<>>
    /\ terms = <<>>
    /\ pos = 0
    /\ tears = {}
    /\ posts = 0
    /\ resolverCalls = 0
    /\ hist = <<>>
    /\ log = {}
    /\ ret = NoReturn
    /\ vqd \in Sessions
    /\ sentHeaders = <<>>
    /\ ResolveIdle
    /\ NegotiateIdle
    /\ ExtractIdle
    /\ ParseIdle
    /\ LayersIdle
    /\ FacadeIdle

\* the POST is answered with a status and a body
Post(st, fs, ts) ==
    /\ pc = "send"
    /\ posts' = posts + 1
    /\ status' = st
    /\ resp' = Assemble(fs, ts)
    /\ frames' = fs
    /\ terms' = ts
    /\ pos' = 0
    /\ tears' = {}
    /\ body' = <<>>
    /\ sse_buffer' = <<>>
    /\ hist' = Append(hist, [status |-> st, parsed |-> "n/a", solved |-> "n/a"])
    /\ pc' = "stream"
    /\ sentHeaders' = Append(sentHeaders, Headers(vqd, attempt))
    /\ UNCHANGED <<attempt, event_tx, rxAlive, sinkLog, resolverCalls, log, ret, vqd>>
    /\ UNCHANGED notChat

\* the POST fails: `.send().await.context("sending chat request")?`
PostFails ==
    /\ pc = "send"
    /\ posts' = posts + 1
    /\ ret' = Failure("sending chat request")
    /\ pc' = "done"
    /\ sentHeaders' = Append(sentHeaders, Headers(vqd, attempt))
    /\ UNCHANGED <<attempt, status, body, sse_buffer, event_tx, rxAlive, sinkLog, resp,
                   frames, terms, pos, tears, resolverCalls, hist, log, vqd>>
    /\ UNCHANGED notChat

\* one turn of `while let Some(chunk) = stream.try_next()`: the next n bytes
ReadChunk(n, budget) ==
    /\ pc = "stream"
    /\ pos + n <= Len(resp)
    /\ LET chunk_str == from_utf8_lossy(SubSeq(resp, pos + 1, pos + n))
           fwd == Forwarding(status, event_tx)
           r   == forward_sse_payloads(sse_buffer, chunk_str, budget)
           d   == ClientDropped(r.ok)
       IN  /\ body' = body \o chunk_str
           /\ sinkLog' = IF fwd THEN sinkLog \o r.sent ELSE sinkLog
           /\ sse_buffer' = IF fwd THEN (IF d.clear THEN <<>> ELSE r.buffer)
                            ELSE sse_buffer
           /\ event_tx' = IF fwd THEN d.tx ELSE event_tx
           /\ rxAlive' = (rxAlive /\ budget = -1)
           /\ pc' = IF fwd /\ d.stop THEN "done" ELSE pc
           /\ ret' = IF fwd /\ d.stop THEN Response(status, body') ELSE ret
    /\ pos' = pos + n
    /\ tears' = IF pos + n < Len(resp) /\ resp[pos + n] = LeadByte
                   /\ resp[pos + n + 1] = ContByte
                THEN tears \cup {pos + n} ELSE tears
    /\ UNCHANGED <<attempt, status, resp, frames, terms, posts, resolverCalls,
                   hist, log, vqd, sentHeaders>>
    /\ UNCHANGED notChat

\* reading the stream fails: `.context("reading chat stream")?` drops the locals
StreamFails ==
    /\ pc = "stream"
    /\ ret' = Failure("reading chat stream")
    /\ pc' = "done"
    /\ body' = <<>>
    /\ sse_buffer' = <<>>
    /\ resp' = <<>>
    /\ frames' = <<>>
    /\ terms' = <<>>
    /\ pos' = 0
    /\ tears' = {}
    /\ UNCHANGED <<attempt, status, event_tx, rxAlive, sinkLog, posts, resolverCalls,
                   hist, log, vqd, sentHeaders>>
    /\ UNCHANGED notChat

\* the stream ended: flush and sentinel on 200, the challenge on 418, else return
EndOfStream(budget) ==
    /\ pc = "stream"
    /\ pos = Len(resp)
    /\ LET fwd == Forwarding(status, event_tx)
       IN  /\ sinkLog' = IF fwd THEN sinkLog \o FinishStream(sse_buffer, budget)
                         ELSE sinkLog
           /\ rxAlive' = (rxAlive /\ budget = -1)
    /\ hist' = IF status = 418
               THEN SetLast(hist, "parsed", IF from_str(body).ok THEN "yes" ELSE "no")
               ELSE hist
    /\ log' = IF status # 418 THEN log
              ELSE IF from_str(body).ok THEN log \cup {"Received challenge response"}
              ELSE log \cup {"Failed to parse challenge JSON"}
    /\ IF AfterStream(status, from_str(body).ok) = "resolve"
       THEN /\ pc' = "resolve"
            /\ resolverCalls' = resolverCalls + 1
            /\ ret' = ret
       ELSE /\ pc' = "done"
            /\ ret' = Response(status, body)
            /\ resolverCalls' = resolverCalls
    /\ UNCHANGED <<attempt, status, body, sse_buffer, event_tx, resp, frames, terms,
                   pos, tears, posts, vqd, sentHeaders>>
    /\ UNCHANGED notChat

\* handle_challenge answers
ResolverReturns(solved) ==
    /\ pc = "resolve"
    /\ solved \in handle_challenge(from_str(body))
    /\ hist' = SetLast(hist, "solved", solved)
    /\ IF Retry(solved) /\ attempt < MAX_RETRIES
       THEN \* `continue`: the next turn of the loop, with fresh locals
            /\ attempt' = attempt + 1
            /\ pc' = "send"
            /\ status' = 0
            /\ body' = <<>>
            /\ sse_buffer' = <<>>
            /\ resp' = <<>>
            /\ frames' = <<>>
            /\ terms' = <<>>
            /\ pos' = 0
            /\ tears' = {}
            /\ ret' = ret
       ELSE /\ pc' = "done"
            /\ ret' = CASE solved = "error" -> Failure("handle_challenge")
                        [] Retry(solved) -> RetryExhausted
                        [] OTHER -> Response(status, body)
            /\ UNCHANGED <<attempt, status, body, sse_buffer, resp, frames, terms,
                           pos, tears>>
    /\ log' = IF Retry(solved) THEN log \cup {"Challenge solved; retrying chat"}
              ELSE log
    /\ UNCHANGED <<event_tx, rxAlive, sinkLog, posts, resolverCalls, vqd, sentHeaders>>
    /\ UNCHANGED notChat

\* the consumer drops the receiver of the sink
DropReceiver ==
    /\ pc # "done"
    /\ rxAlive
    /\ rxAlive' = FALSE
    /\ UNCHANGED <<pc, attempt, status, body, sse_buffer, event_tx, sinkLog, resp,
                   frames, terms, pos, tears, posts, resolverCalls, hist, log, ret,
                   vqd, sentHeaders>>
    /\ UNCHANGED notChat

Next ==
    \/ \E st \in Statuses : \E b \in Bodies(st) : Post(st, b[1], b[2])
    \/ PostFails
    \/ \E n \in 1..(Len(resp) - pos) : \E k \in ChunkBudgets(n) : ReadChunk(n, k)
    \/ StreamFails
    \/ \E k \in FinishBudgets : EndOfStream(k)
    \/ \E solved \in {"true", "false", "error"} : ResolverReturns(solved)
    \/ DropReceiver

SpecChat == Init /\ [][Next]_vars

---------------------------------------------------------------------------
(* What the claims speak of *)

Last(h) == h[Len(h)]

ExhaustedError == Failure("Reached maximum chat retries after handling challenge")
StreamError == Failure("reading chat stream")

\* the text of a response body whose bytes were cut at the positions `cuts`: each
\* piece is decoded on its own.  With no cut it is the text of the whole body.
RECURSIVE DecodeTorn(_, _)
DecodeTorn(bytes, cuts) ==
    LET inside == cuts \cap 1..(Len(bytes) - 1)
    IN  IF inside = {} THEN from_utf8_lossy(bytes)
        ELSE LET c == Min(inside)
             IN  from_utf8_lossy(SubSeq(bytes, 1, c)) \o
                 DecodeTorn(SubSeq(bytes, c + 1, Len(bytes)), {x - c : x \in inside \ {c}})

\* the body of the current response as text: whole, but for the torn characters
ReceivedText == DecodeTorn(resp, tears)

\* the send_chat call ended by returning the response of its last attempt
Returned == pc = "done" /\ ret.kind = "response"

\* a 200 attempt whose sink stayed alive to the end of the attempt
Live200 == status = 200 /\ event_tx = "some" /\ rxAlive

\* what a sink receives when the whole body arrives as one chunk
OneChunk(bytes) ==
    LET r == forward_sse_payloads(<<>>, from_utf8_lossy(bytes), -1)
    IN  r.sent \o FinishStream(r.buffer, -1)

\* where frame i starts in the body, as an offset
FrameStart(i) == Len(Assemble(SubSeq(frames, 1, i - 1), SubSeq(terms, 1, i - 1)))

\* the data payloads of frame i alone, whatever terminates it
FramePayloads(i) ==
    DataPayloads(DecodeTorn(frames[i], {t - FrameStart(i) : t \in tears}))

AllFramePayloads == Concat([i \in 1..Len(frames) |-> FramePayloads(i)])

\* C1: one send_chat call issues at most 3 chat POSTs, and a POST other than the
\* first follows only an attempt that was answered 418, whose body parsed and whose
\* challenge the resolver reported solved.
C1_PostsBounded ==
    [][ /\ posts' <= 3
        /\ posts' # posts =>
             /\ posts' = posts + 1
             /\ posts = Len(hist)
             /\ posts > 0 =>
                  Last(hist) = [status |-> 418, parsed |-> "yes", solved |-> "true"]
      ]_vars

C1_Witness == posts = 3 /\ Returned /\ ret.status = 200

\* C2: send_chat fails with RetryExhausted exactly when each of its 3 sends was
\* answered 418 and the resolver reported success each time; a returned response with
\* status 418 means the last challenge was not reported solved.
C2_RetryExhausted ==
    pc = "done" =>
        /\ ret = ExhaustedError <=>
             /\ Len(hist) = 3
             /\ \A i \in 1..3 : hist[i].status = 418 /\ hist[i].solved = "true"
        /\ (ret.kind = "response" /\ ret.status = 418) => Last(hist).solved # "true"
        /\ ret.kind \in {"response", "error"}

C2_Witness == pc = "done" /\ ret = ExhaustedError /\ posts = 3 /\ resolverCalls = 3

\* C3: when a send is answered 418 and the resolver answers false, send_chat returns
\* status 418 with the text of that response and sends no further request.
C3_UnresolvedReturned ==
    (hist # <<>> /\ Last(hist).solved = "false") =>
        /\ pc = "done"
        /\ ret = Response(418, ReceivedText)
        /\ Last(hist).status = 418
        /\ posts = Len(hist)

C3_Witness ==
    /\ Returned /\ hist # <<>> /\ Last(hist).solved = "false"
    /\ extract_tiles(from_str(body)) # <<>> /\ posts = 2 /\ tears # {}

\* C4 as claimed: a 418 body that is no JSON makes send_chat fail with an error.
C4_DistinctError ==
    (pc = "done" /\ hist # <<>> /\ Last(hist).parsed = "no") => ret.kind = "error"

\* C4 as amended: a 418 body that is no JSON is logged as a parse failure, the
\* resolver is not invoked for it, no further request is sent, and send_chat returns
\* the 418 response as it does for an unresolved challenge.
C4_UnparsableReturned ==
    (hist # <<>> /\ Last(hist).parsed = "no") =>
        /\ pc = "done"
        /\ ret = Response(418, ReceivedText)
        /\ "Failed to parse challenge JSON" \in log
        /\ resolverCalls = Len(hist) - 1
        /\ posts = Len(hist)
        /\ Last(hist).solved = "n/a"

C4_Witness ==
    /\ Returned /\ hist # <<>> /\ Last(hist).parsed = "no"
    /\ ret.status = 418 /\ ret.body # <<>> /\ resolverCalls = 1

\* C5: an attempt answered with a status other than 200 and 418 ends the call after
\* that send with that status and the text of that body: the resolver is not invoked
\* for it, nothing is retried and nothing reaches the sink.
C5_OtherStatus ==
    (pc # "send" /\ ~(status \in {0, 200, 418})) =>
        /\ pc \in {"stream", "done"}
        /\ sinkLog = <<>>
        /\ posts = Len(hist)
        /\ resolverCalls = Len(hist) - 1
        /\ Last(hist) = [status |-> status, parsed |-> "n/a", solved |-> "n/a"]
        /\ pc = "done" => ret \in {Response(status, ReceivedText), StreamError}
        /\ (pc = "stream" /\ pos = Len(resp)) => body = ReceivedText

C5_Witness ==
    /\ Returned /\ ret.status = 500 /\ DataPayloads(ret.body) # <<>>
    /\ event_tx = "some" /\ rxAlive /\ posts = 2

\* C6: in a 200 attempt with a live sink, what the sink has received is, at every
\* moment, the data payloads of the framed part of the stream in stream order; at the
\* end the trailing unterminated frame is flushed and the sentinel comes last.
C6_OrderedThenDone ==
    Live200 =>
        /\ pc = "stream" => sinkLog \o DataPayloads(sse_buffer) = DataPayloads(body)
        /\ Returned => sinkLog = DataPayloads(body) \o <<DoneSentinel>>

C6_Witness ==
    /\ Live200 /\ Returned /\ Len(sinkLog) = 3
    /\ terms[Len(terms)] = "none" /\ DataPayloads(sse_buffer) # <<>>

\* C7 as claimed: however the bytes of a 200 response are split into chunks, the
\* sink receives what it receives when the body arrives as one chunk.
C7_ChunkIndependent ==
    (Live200 /\ Returned) => sinkLog = OneChunk(resp)

\* Beside C7: when no chunk boundary falls inside a character, the split does not
\* matter: frame extraction is chunk-boundary-independent on decoded text.
ChunkIndependentOnText ==
    (Live200 /\ Returned /\ tears = {}) => sinkLog = OneChunk(resp)

\* C8: the payloads a live sink has received at the end of a 200 attempt are those of
\* the frames of the stream, in order, whichever terminator follows each frame.
C8_TerminatorIndependent ==
    (Live200 /\ Returned) => sinkLog = AllFramePayloads \o <<DoneSentinel>>

C8_Witness ==
    /\ Live200 /\ Returned /\ terms = <<"crlf", "lf">>
    /\ Len(sinkLog) = 3 /\ sinkLog[1] # sinkLog[2]

\* C9: once the receiver of the sink is gone nothing more reaches the sink, and a 200
\* attempt is still read to its end and returned with status 200 and its whole text,
\* unless reading the stream itself fails.
C9_DropIsSilent ==
    [][ /\ ~rxAlive => sinkLog' = sinkLog
        /\ (pc' = "done" /\ status' = 200 /\ ~rxAlive') =>
             \/ ret' = StreamError
             \/ /\ ret' = Response(200, DecodeTorn(resp', tears'))
                /\ pos' = Len(resp')
      ]_vars

C9_Witness ==
    /\ Returned /\ ret.status = 200 /\ ~rxAlive /\ event_tx = "none"
    /\ Len(sinkLog) = 1 /\ Len(DataPayloads(body)) = 2 /\ Len(frames) = 2

\* C10 as claimed: the returned body is the raw response body, however its bytes
\* were split into chunks.
C10_RawBody ==
    Returned => ret.body = from_utf8_lossy(resp)

---------------------------------------------------------------------------
(* handle_challenge: the bounds and the inputs *)

\* the most POST /submit requests one surface gets
MaxRequests == 2

\* the parsed 418 bodies handed to handle_challenge: no pack field, an empty one, one
\* of hyphens and blanks only, two tiles, two tiles with blanks and a doubled hyphen,
\* and three tiles under "cd" beside a pack field of the payload itself
Payloads ==
    { Value(FALSE, <<>>, FALSE, FALSE, <<>>),
      Value(TRUE, <<>>, FALSE, FALSE, <<>>),
      Value(TRUE, <<"-", SP, "-">>, FALSE, FALSE, <<>>),
      Value(TRUE, <<"a", "-", "b">>, FALSE, FALSE, <<>>),
      Value(TRUE, <<SP, "a", "-", "-", "b", SP>>, FALSE, FALSE, <<>>),
      Value(TRUE, <<"a">>, TRUE, TRUE, <<"a", "-", "b", "-", "c">>) }

\* the `selections` of a POST /submit
Posted == { <<>>, <<7>>, <<1, 0, 1>>, <<0>> }

\* what the user types at the prompt
PromptInputs == { <<>>, <<"9">>, <<"1", ",", SP, "0", SP, "1">>, <<"+", "0", ",", "-", "1">> }

\* how the GET of one tile can end: saved, a non-success status, a transport error, an
\* error reading the body, an error writing the file
DownloadOutcomes == {"saved", "status", "transport", "read", "write"}

\* how the verification request can end: JSON with "sc" 0, JSON with another "sc",
\* JSON without "sc", a body that is no JSON, a transport error
VerifyOutcomes == {"sc0", "sc1", "nosc", "notjson", "transport"}

---------------------------------------------------------------------------
(* handle_challenge: the pure steps *)

MAX_ATTEMPTS_Four == 3 + 1
MAX_ATTEMPTS == 3

\* slice::sort_unstable
RECURSIVE sort_unstable(_)
sort_unstable(s) ==
    IF s = <<>> THEN <<>>
    ELSE LET m == Min({s[i] : i \in DOMAIN s})
             k == Min({i \in DOMAIN s : s[i] = m})
         IN  <<m>> \o sort_unstable(SubSeq(s, 1, k - 1) \o SubSeq(s, k + 1, Len(s)))

\* Vec::dedup: consecutive repeats go
RECURSIVE Dedup(_)
Dedup(s) ==
    IF Len(s) <= 1 THEN s
    ELSE IF s[1] = s[2] THEN Dedup(Tail(s))
    ELSE <<s[1]>> \o Dedup(Tail(s))

InRange(s, total) == SelectSeq(s, LAMBDA idx : idx < total)

\* BTreeSet::into_iter().collect(): the members in ascending order
RECURSIVE Ascending(_)
Ascending(S) == IF S = {} THEN <<>> ELSE <<Min(S)>> \o Ascending(S \ {Min(S)})

Digits == <<"0", "1", "2", "3", "4", "5", "6", "7", "8", "9">>
IsDigit(c) == \E d \in DOMAIN Digits : Digits[d] = c
DigitValue(c) == (CHOOSE d \in DOMAIN Digits : Digits[d] = c) - 1

RECURSIVE Decimal(_)
Decimal(ds) == IF ds = <<>> THEN 0 ELSE 10 * Decimal(SubSeq(ds, 1, Len(ds) - 1))
                                        + DigitValue(ds[Len(ds)])

\* str::parse::<usize>: an optional "+", then digits only; -1 stands for Err
ParseUsize(token) ==
    LET ds == IF token # <<>> /\ token[1] = "+" THEN Tail(token) ELSE token
    IN  IF ds # <<>> /\ \A i \in DOMAIN ds : IsDigit(ds[i]) THEN Decimal(ds) ELSE -1

TAB == "\t"

\* `c.is_ascii_whitespace() || c == ','` (the form feed is not modelled)
IsDelimiter(c) == c \in {SP, TAB, CR, LF, ","}

\* str::split on ASCII white space and commas
RECURSIVE Tokens(_)
Tokens(s) ==
    LET at == {i \in DOMAIN s : IsDelimiter(s[i])}
    IN  IF at = {} THEN <<s>>
        ELSE <<SubSeq(s, 1, Min(at) - 1)>> \o Tokens(SubSeq(s, Min(at) + 1, Len(s)))

parse_tile_selection_NoBound(input, len) ==
    LET toks == Tokens(input)
        vals == {ParseUsize(toks[i]) : i \in {j \in DOMAIN toks : toks[j] # <<>>}}
    IN  Ascending({v \in vals : v >= 0})

\* parse_tile_selection
parse_tile_selection(input, len) ==
    LET toks == Tokens(input)
        vals == {ParseUsize(toks[i]) : i \in {j \in DOMAIN toks : toks[j] # <<>>}}
    IN  Ascending({v \in vals : v >= 0 /\ v < len})

\* save_challenge_assets on one tile: the asset is pushed, the tile is skipped with
\* `continue`, or `?` ends the function with the error
TileOutcome(o) ==
    CASE o = "saved" -> "push"
      [] o = "status" -> "skip"
      [] OTHER -> "abort"

DownloadError(o) ==
    CASE o = "transport" -> "downloading tile"
      [] o = "read" -> "reading tile bytes"
      [] OTHER -> "writing tile"

\* submit_selection before the lock: the posted ordinals below assets.len(), sorted
\* and deduped; none left is a 400
\* challenge_page: the ordinal written for each listed tile, as checkbox value and in
\* the image URL, in the order of the page
challenge_page(staged) == [k \in DOMAIN staged |-> staged[k].index]

\* tile_image: `state.assets.get(index)`, the file of that asset or 404
tile_image(staged, index) ==
    IF index + 1 \in DOMAIN staged
    THEN [code |-> 200, image |-> staged[index + 1].tile_id]
    ELSE [code |-> 404, image |-> <<>>]

Validate_NoDedup(posted, total) == sort_unstable(InRange(posted, total))
Validate(posted, total) == Dedup(sort_unstable(InRange(posted, total)))

\* `if selections.is_empty()`: the 400
Rejects_Never(selections) == FALSE
Rejects(selections) == selections = <<>>

\* submit_selection under the lock: the sender is taken out of the cell, and the
\* selection goes through it if it was there
HandOff_KeepSender(cell, chan, selections) ==
    IF cell = "some"
    THEN [cell |-> "some", chan |-> [chan EXCEPT !.sent = Append(@, selections)]]
    ELSE [cell |-> cell, chan |-> chan]
HandOff(cell, chan, selections) ==
    IF cell = "some"
    THEN [cell |-> "none", chan |-> [chan EXCEPT !.sent = Append(@, selections)]]
    ELSE [cell |-> cell, chan |-> chan]

\* `selection_rx.await`: ready once a selection was sent or the sender was dropped
Ready_TimedOut(chan) == TRUE
Ready(chan) == chan.sent # <<>> \/ chan.closed

\* `match result`: the indices, or none when the channel closed without a selection
Selected(chan) == IF chan.sent # <<>> THEN chan.sent[1] ELSE <<>>

\* `self.handle.await` of shutdown: the server task ends once no request is in flight
Joined_NoDrain(reqs) == TRUE
Joined(reqs) == \A r \in DOMAIN reqs : reqs[r].pc # "filtered"

\* lines 187-215: the verdict on the selection of this attempt
Judge_VerifyEmpty(indices, n) ==
    IF InRange(indices, n) = <<>> /\ indices # <<>> THEN "invalid" ELSE "verify"
Judge(indices, n) ==
    IF indices = <<>> THEN "empty"
    ELSE IF InRange(indices, n) = <<>> THEN "invalid"
    ELSE "verify"

\* the tile ids of the selection: filtered, sorted, deduped, mapped through `tiles`
SelectedIds(indices, ts) ==
    LET filtered == Dedup(sort_unstable(InRange(indices, Len(ts))))
    IN  [i \in DOMAIN filtered |-> ts[filtered[i] + 1]]

\* verify_challenge: Ok(true) on "sc" 0, Ok(false) on other JSON, else an error
verify_challenge(o) ==
    CASE o = "sc0" -> "true"
      [] o \in {"sc1", "nosc"} -> "false"
      [] o = "notjson" -> "Failed to parse challenge verification response"
      [] OTHER -> "verifying challenge"

\* after a failed attempt: `if attempt >= MAX_ATTEMPTS { return Ok(false); }`
GiveUp(n) == n >= MAX_ATTEMPTS

IdleRequests ==
    [r \in 1..MaxRequests |->
        [pc |-> "idle", posted |-> <<>>, selections |-> <<>>, code |-> 0]]

---------------------------------------------------------------------------
(* handle_challenge and the challenge web server *)

\* send_chat not running
ChatIdle ==
    /\ pc = "idle"
    /\ attempt = 0
    /\ status = 0
    /\ body = <<>>
    /\ sse_buffer = <<>>
    /\ event_tx = "none"
    /\ rxAlive = FALSE
    /\ sinkLog = <<>>
    /\ resp = <<>>
    /\ frames = <<>>
    /\ terms = <<>>
    /\ pos = 0
    /\ tears = {}
    /\ posts = 0
    /\ resolverCalls = 0
    /\ hist = <<>>
    /\ log = {}
    /\ ret = NoReturn
    /\ vqd = NoSession
    /\ sentHeaders = <<>>

InitResolve ==
    /\ payload \in Payloads
    /\ tiles = <<>>
    /\ hc_pc = "start"
    /\ next_tile = 0
    /\ assets = <<>>
    /\ hc_attempt = 0
    /\ use_web = TRUE
    /\ surface = "none"
    /\ selection_tx = "none"
    /\ selection_rx = [sent |-> <<>>, closed |-> FALSE]
    /\ requests = <<>>
    /\ selected_indices = <<>>
    /\ selected_ids = <<>>
    /\ downloads = 0
    /\ surfaceStarts = 0
    /\ prompts = 0
    /\ collected = 0
    /\ verifies = 0
    /\ verified = "none"
    /\ hc_ret = "none"
    /\ ChatIdle
    /\ NegotiateIdle
    /\ ExtractIdle
    /\ ParseIdle
    /\ LayersIdle
    /\ FacadeIdle

\* lines 113-134 and the head of save_challenge_assets: no tile is Ok(false) at once;
\* else the working directory is created, which may fail
ExtractTiles(dirOk) ==
    /\ hc_pc = "start"
    /\ LET ts == extract_tiles(Challenge(payload))
       IN  /\ tiles' = ts
           /\ IF ts = <<>>
              THEN dirOk /\ hc_ret' = "false" /\ hc_pc' = "done"
              ELSE IF dirOk
              THEN hc_ret' = hc_ret /\ hc_pc' = "download"
              ELSE hc_ret' = "creating duckai_challenge directory" /\ hc_pc' = "done"
    /\ UNCHANGED <<verified, payload, next_tile, assets, hc_attempt, use_web, surface, selection_tx,
                   selection_rx, requests, selected_indices, selected_ids, downloads,
                   surfaceStarts, prompts, collected, verifies>>
    /\ UNCHANGED notResolve

\* one turn of the loop of save_challenge_assets, and after the last tile the check
\* `assets.is_empty()` of handle_challenge
DownloadTile(o) ==
    /\ hc_pc = "download"
    /\ next_tile < Len(tiles)
    /\ downloads' = downloads + 1
    /\ next_tile' = next_tile + 1
    /\ assets' = IF TileOutcome(o) = "push"
                 THEN Append(assets, [index |-> next_tile, tile_id |-> tiles[next_tile + 1]])
                 ELSE assets
    /\ IF TileOutcome(o) = "abort"
       THEN hc_ret' = DownloadError(o) /\ hc_pc' = "done"
       ELSE IF next_tile' < Len(tiles)
       THEN hc_ret' = hc_ret /\ hc_pc' = hc_pc
       ELSE IF assets' = <<>>
       THEN hc_ret' = "false" /\ hc_pc' = "done"
       ELSE hc_ret' = hc_ret /\ hc_pc' = "attempt"
    /\ UNCHANGED <<verified, payload, tiles, hc_attempt, use_web, surface, selection_tx,
                   selection_rx, requests, selected_indices, selected_ids,
                   surfaceStarts, prompts, collected, verifies>>
    /\ UNCHANGED notResolve

\* the head of the loop: `attempt += 1`, then the surface is started, or the prompt
\* is next when the start fails or failed before
\* `use_web = false;` in the Err arm of ChallengeWebServer::start
AfterStartFailure_KeepWeb == TRUE
AfterStartFailure == FALSE

StartAttempt(ok) ==
    /\ hc_pc = "attempt"
    /\ hc_attempt' = hc_attempt + 1
    /\ IF use_web /\ ok
       THEN /\ surface' = "running"
            /\ selection_tx' = "some"
            /\ selection_rx' = [sent |-> <<>>, closed |-> FALSE]
            /\ requests' = IdleRequests
            /\ surfaceStarts' = surfaceStarts + 1
            /\ hc_pc' = "wait"
            /\ use_web' = use_web
       ELSE /\ (~use_web => ok)
            /\ use_web' = (use_web /\ AfterStartFailure)
            /\ hc_pc' = "prompt"
            /\ UNCHANGED <<surface, selection_tx, selection_rx, requests, surfaceStarts>>
    /\ UNCHANGED <<verified, payload, tiles, next_tile, assets, selected_indices, selected_ids,
                   downloads, prompts, collected, verifies, hc_ret>>
    /\ UNCHANGED notResolve

\* prompt_tile_selection: the parsed input, or the error of the terminal
PromptSelection(input, ok) ==
    /\ hc_pc = "prompt"
    /\ prompts' = prompts + 1
    /\ IF ok
       THEN /\ selected_indices' = parse_tile_selection(input, Len(tiles))
            /\ collected' = collected + 1
            /\ hc_pc' = "judge"
            /\ hc_ret' = hc_ret
       ELSE /\ input = <<>>
            /\ hc_ret' = "prompt"
            /\ hc_pc' = "done"
            /\ UNCHANGED <<selected_indices, collected>>
    /\ UNCHANGED <<verified, payload, tiles, next_tile, assets, hc_attempt, use_web, surface,
                   selection_tx, selection_rx, requests, selected_ids, downloads,
                   surfaceStarts, verifies>>
    /\ UNCHANGED notResolve

\* submit_selection up to the lock: a request with no valid ordinal is answered 400
SubmitArrives(r, posted) ==
    /\ surface = "running"
    /\ requests[r].pc = "idle"
    /\ \A q \in 1..(r - 1) : requests[q].pc # "idle"
    /\ LET selections == Validate(posted, Len(assets))
       IN  requests' = [requests EXCEPT ![r] =
                          IF Rejects(selections)
                          THEN [pc |-> "done", posted |-> posted,
                                selections |-> <<>>, code |-> 400]
                          ELSE [pc |-> "filtered", posted |-> posted,
                                selections |-> selections, code |-> 0]]
    /\ UNCHANGED <<verified, payload, tiles, hc_pc, next_tile, assets, hc_attempt, use_web, surface,
                   selection_tx, selection_rx, selected_indices, selected_ids, downloads,
                   surfaceStarts, prompts, collected, verifies, hc_ret>>
    /\ UNCHANGED notResolve

\* submit_selection from the lock on: the hand-off, then the 200
SubmitHandsOff(r) ==
    /\ surface \in {"running", "draining"}
    /\ requests[r].pc = "filtered"
    /\ LET h == HandOff(selection_tx, selection_rx, requests[r].selections)
       IN  /\ selection_tx' = h.cell
           /\ selection_rx' = h.chan
    /\ requests' = [requests EXCEPT ![r] = [@ EXCEPT !.pc = "done", !.code = 200]]
    /\ UNCHANGED <<verified, payload, tiles, hc_pc, next_tile, assets, hc_attempt, use_web, surface,
                   selected_indices, selected_ids, downloads, surfaceStarts, prompts,
                   collected, verifies, hc_ret>>
    /\ UNCHANGED notResolve

\* the server task ends unasked while the resolver waits: its state goes, and with it
\* a sender still in the cell
ServerExits ==
    /\ hc_pc = "wait"
    /\ surface = "running"
    /\ \A r \in DOMAIN requests : requests[r].pc # "filtered"
    /\ surface' = "exited"
    /\ selection_tx' = IF selection_tx = "some" THEN "dropped" ELSE selection_tx
    /\ selection_rx' = IF selection_tx = "some"
                       THEN [selection_rx EXCEPT !.closed = TRUE] ELSE selection_rx
    /\ UNCHANGED <<verified, payload, tiles, hc_pc, next_tile, assets, hc_attempt, use_web, requests,
                   selected_indices, selected_ids, downloads, surfaceStarts, prompts,
                   collected, verifies, hc_ret>>
    /\ UNCHANGED notResolve

\* `selection_rx.await` returns, and shutdown sends the signal
SelectionReceived ==
    /\ hc_pc = "wait"
    /\ Ready(selection_rx)
    /\ hc_pc' = "shutdown"
    /\ surface' = IF surface = "running" THEN "draining" ELSE surface
    /\ UNCHANGED <<verified, payload, tiles, next_tile, assets, hc_attempt, use_web, selection_tx,
                   selection_rx, requests, selected_indices, selected_ids, downloads,
                   surfaceStarts, prompts, collected, verifies, hc_ret>>
    /\ UNCHANGED notResolve

\* `self.handle.await` returns: the surface is gone, and `match result` yields the
\* selection of this attempt
ShutdownJoined ==
    /\ hc_pc = "shutdown"
    /\ Joined(requests)
    /\ surface' = "none"
    /\ selected_indices' = Selected(selection_rx)
    /\ collected' = collected + 1
    /\ hc_pc' = "judge"
    /\ UNCHANGED <<verified, payload, tiles, next_tile, assets, hc_attempt, use_web, selection_tx,
                   selection_rx, requests, selected_ids, downloads, surfaceStarts,
                   prompts, verifies, hc_ret>>
    /\ UNCHANGED notResolve

\* lines 187-215: an empty or invalid selection is a failed attempt, else the ids
JudgeSelection ==
    /\ hc_pc = "judge"
    /\ IF Judge(selected_indices, Len(tiles)) = "verify"
       THEN /\ selected_ids' = SelectedIds(selected_indices, tiles)
            /\ hc_pc' = "verify"
            /\ hc_ret' = hc_ret
       ELSE /\ selected_ids' = selected_ids
            /\ IF GiveUp(hc_attempt)
               THEN hc_ret' = "false" /\ hc_pc' = "done"
               ELSE hc_ret' = hc_ret /\ hc_pc' = "attempt"
    /\ UNCHANGED <<verified, payload, tiles, next_tile, assets, hc_attempt, use_web, surface,
                   selection_tx, selection_rx, requests, selected_indices, downloads,
                   surfaceStarts, prompts, collected, verifies>>
    /\ UNCHANGED notResolve

\* lines 217-226: verify_challenge sends no request for no id; else the request, and
\* true returns, false is a failed attempt, an error ends the call
VerifyChallenge(o) ==
    /\ hc_pc = "verify"
    /\ selected_ids = <<>> => o = "sc1"
    /\ verifies' = IF selected_ids = <<>> THEN verifies ELSE verifies + 1
    /\ LET res == IF selected_ids = <<>> THEN "false" ELSE verify_challenge(o)
       IN  /\ verified' = IF selected_ids = <<>> THEN "none" ELSE o
           /\ IF res = "true" THEN hc_ret' = "true" /\ hc_pc' = "done"
              ELSE IF res = "false"
              THEN IF GiveUp(hc_attempt)
                   THEN hc_ret' = "false" /\ hc_pc' = "done"
                   ELSE hc_ret' = hc_ret /\ hc_pc' = "attempt"
              ELSE hc_ret' = res /\ hc_pc' = "done"
    /\ UNCHANGED <<payload, tiles, next_tile, assets, hc_attempt, use_web, surface,
                   selection_tx, selection_rx, requests, selected_indices, selected_ids,
                   downloads, surfaceStarts, prompts, collected>>
    /\ UNCHANGED notResolve

NextResolve ==
    \/ \E dirOk \in BOOLEAN : ExtractTiles(dirOk)
    \/ \E o \in DownloadOutcomes : DownloadTile(o)
    \/ \E ok \in BOOLEAN : StartAttempt(ok)
    \/ \E input \in PromptInputs : \E ok \in BOOLEAN : PromptSelection(input, ok)
    \/ \E r \in 1..MaxRequests : \E posted \in Posted : SubmitArrives(r, posted)
    \/ \E r \in 1..MaxRequests : SubmitHandsOff(r)
    \/ ServerExits
    \/ SelectionReceived
    \/ ShutdownJoined
    \/ JudgeSelection
    \/ \E o \in VerifyOutcomes : VerifyChallenge(o)

SpecResolve == InitResolve /\ [][NextResolve]_vars

---------------------------------------------------------------------------
(* What the claims about handle_challenge speak of *)

HcReturned == hc_pc = "done"

HcErrors == {"creating duckai_challenge directory", "downloading tile", "reading tile bytes",
             "writing tile", "prompt", "Failed to parse challenge verification response",
             "verifying challenge"}

\* a request of the surface leaves the lock in this step
HandsOff(r) ==
    /\ r \in DOMAIN requests /\ r \in DOMAIN requests'
    /\ requests[r].pc = "filtered" /\ requests'[r].pc = "done"

\* the pack field holds no tile id: it is missing, or all hyphens and white space
NoTileId(challenge) ==
    ~challenge.hasP \/ \A i \in DOMAIN challenge.p : challenge.p[i] \in {"-", SP, CR, LF}

\* C11: per attempt at most one selection goes through the hand-off channel.  A valid
\* submission that finds the sender in the cell delivers its selection, one that finds
\* the cell empty delivers nothing, both are answered 200, nothing else puts a
\* selection into the channel, and the resolver collects at most one selection per
\* attempt.
C11_ExactlyOnce ==
    [][ /\ Len(selection_rx'.sent) <= 1
        /\ collected' <= hc_attempt'
        /\ \A r \in 1..MaxRequests : HandsOff(r) =>
              /\ requests'[r].code = 200
              /\ IF selection_tx = "some"
                 THEN selection_rx.sent = <<>>
                      /\ selection_rx'.sent = <<requests[r].selections>>
                 ELSE selection_rx' = selection_rx
        /\ (selection_rx'.sent # selection_rx.sent) =>
              \/ selection_rx'.sent = <<>>
              \/ \E r \in 1..MaxRequests : HandsOff(r)
      ]_vars

C11_Witness ==
    /\ hc_pc = "judge" /\ Len(requests) >= 2
    /\ \A r \in 1..2 : requests[r].pc = "done" /\ requests[r].code = 200
    /\ requests[1].selections # requests[2].selections
    /\ selection_rx.sent = <<requests[2].selections>>
    /\ selected_indices = requests[2].selections

\* C12: one call of handle_challenge runs at most 3 attempts, collects a selection at
\* most 3 times and sends at most 3 verification requests; when the third attempt
\* ends with an empty or invalid selection, or with a verification answered by JSON
\* whose "sc" is not 0, the call returns false.
C12_ThreeAttempts ==
    [][ /\ hc_attempt' <= 3 /\ collected' <= 3 /\ verifies' <= 3
        /\ (hc_attempt = 3 /\ hc_pc = "judge" /\ hc_pc' # "verify" /\ hc_pc' # hc_pc) =>
              hc_pc' = "done" /\ hc_ret' = "false"
        /\ (hc_attempt = 3 /\ hc_pc = "verify" /\ hc_pc' # hc_pc
              /\ verified' \in {"sc1", "nosc"}) =>
              hc_pc' = "done" /\ hc_ret' = "false"
      ]_vars

C12_Witness ==
    /\ HcReturned /\ hc_ret = "false"
    /\ hc_attempt = 3 /\ collected = 3 /\ verifies = 3 /\ verified = "nosc"

\* C13: when the pack field holds no tile id, handle_challenge returns false at once:
\* no tile GET, no surface, no prompt, no verification request.
C13_NoTilesFailClosed ==
    (hc_pc # "start" /\ NoTileId(Challenge(payload))) =>
        /\ HcReturned /\ hc_ret = "false"
        /\ downloads = 0 /\ surfaceStarts = 0 /\ prompts = 0 /\ verifies = 0
        /\ surface = "none"

C13_Witness ==
    /\ HcReturned /\ hc_ret = "false" /\ downloads = 0
    /\ payload.hasP /\ payload.p = <<"-", SP, "-">>

DownloadErrors == {"downloading tile", "reading tile bytes", "writing tile"}

\* save_challenge_assets was entered and handle_challenge is past it
PastDownload ==
    /\ hc_pc \notin {"start", "download"}
    /\ tiles # <<>>
    /\ hc_ret # "creating duckai_challenge directory"

\* C14 as claimed: whatever makes the download of a tile fail, the tile is skipped,
\* the other tiles are still requested, and handle_challenge returns no error for it.
C14_DownloadNeverFatal ==
    PastDownload => downloads = Len(tiles) /\ hc_ret \notin DownloadErrors

\* what holds of save_challenge_assets: it ends with an error only on a transport, read
\* or write error, and then no later tile is requested; else every tile is requested
\* once and the assets are the tiles that were saved, in order
DownloadEndsAtFirstError ==
    PastDownload =>
        /\ downloads = next_tile
        /\ \A i \in DOMAIN assets : assets[i].tile_id = tiles[assets[i].index + 1]
        /\ IF hc_ret \in DownloadErrors
           THEN HcReturned /\ surfaceStarts = 0 /\ prompts = 0 /\ verifies = 0
           ELSE downloads = Len(tiles)

\* C15 as claimed: when no tile was saved, handle_challenge returns false, and no
\* surface, prompt or verification request was started.
C15_NoAssetFailClosed ==
    (PastDownload /\ assets = <<>>) =>
        /\ HcReturned /\ hc_ret = "false"
        /\ surfaceStarts = 0 /\ prompts = 0 /\ verifies = 0

\* what holds when no tile was saved: nothing is started, and the call returns false
\* unless a download error ended it
NoAssetNothingStarted ==
    (PastDownload /\ assets = <<>>) =>
        /\ HcReturned /\ hc_ret \in {"false"} \cup DownloadErrors
        /\ surfaceStarts = 0 /\ prompts = 0 /\ verifies = 0

\* a request of the surface is between its validation and its answer
InFlight(reqs) == \E r \in DOMAIN reqs : reqs[r].pc = "filtered"

\* C16: a surface exists only while handle_challenge waits for the selection or for
\* the shutdown: none exists when the verification request is sent, when an attempt
\* starts, at the prompt, or after the return.  A surface goes away only after the
\* shutdown signal (or after its task ended) and with no request in flight, and a
\* surface starts only when none exists.
C16_SurfaceShutDown ==
    [][ /\ (hc_pc' \notin {"wait", "shutdown"}) => (surface' = "none" /\ ~InFlight(requests'))
        /\ (surface # "none" /\ surface' = "none") =>
              surface \in {"draining", "exited"} /\ ~InFlight(requests)
        /\ (surface' = "running" /\ surface # "running") => surface = "none"
        /\ (verifies' # verifies \/ hc_attempt' # hc_attempt) => surface = "none"
      ]_vars

C16_Witness ==
    /\ HcReturned /\ hc_ret = "verifying challenge" /\ surface = "none"
    /\ surfaceStarts = 2 /\ Len(requests) >= 2
    /\ \A r \in 1..2 : requests[r].pc = "done" /\ requests[r].code = 200

\* the surface closed without a selection, and the attempt went on without a surface
C16_WitnessClosed ==
    /\ hc_pc = "attempt" /\ surface = "none" /\ selection_rx.closed
    /\ selection_rx.sent = <<>> /\ hc_attempt = 1 /\ collected = 1

\* C17: a selection that is empty or holds no ordinal in range sends no verification
\* request and ends the attempt: the next attempt follows, or false is returned after
\* the third.  No tile is requested after the download phase, so each tile is
\* requested at most once per call and later attempts work on the same assets.
C17_FailedAttemptNoRedownload ==
    [][ /\ downloads' <= Len(tiles')
        /\ (hc_pc \notin {"start", "download"}) => (downloads' = downloads /\ assets' = assets)
        /\ (hc_pc = "judge" /\ hc_pc' # hc_pc
              /\ InRange(selected_indices, Len(tiles)) = <<>>) =>
              /\ verifies' = verifies
              /\ IF hc_attempt < 3 THEN hc_pc' = "attempt" /\ hc_ret' = "none"
                 ELSE hc_pc' = "done" /\ hc_ret' = "false"
        /\ (hc_pc = "attempt" /\ hc_pc' # hc_pc) => hc_attempt' = hc_attempt + 1
      ]_vars

C17_Witness ==
    /\ hc_pc = "verify" /\ hc_attempt = 3 /\ collected = 3 /\ verifies = 0
    /\ surfaceStarts = 1 /\ prompts = 2
    /\ downloads = Len(tiles) /\ Len(assets) = 1 /\ Len(tiles) = 3

\* both sources of a selection filter it first, so the selection that reaches the
\* verdict is never non-empty and all out of range
InvalidNeverCollected ==
    hc_pc = "judge" => Judge(selected_indices, Len(tiles)) # "invalid"

\* C18 as claimed: handle_challenge returns true exactly when a verification request
\* was answered with "sc" 0, and every other answer is a failed attempt: the next
\* attempt follows, or false is returned after the third.
C18_TrueIffStatusZero ==
    [][ /\ (hc_ret' = "true" /\ hc_ret # "true") => (hc_pc = "verify" /\ verified' = "sc0")
        /\ (hc_pc = "verify" /\ hc_pc' # hc_pc /\ verified' = "sc0") => hc_ret' = "true"
        /\ (hc_pc = "verify" /\ hc_pc' # hc_pc /\ verified' \in {"sc1", "nosc", "notjson"}) =>
              IF hc_attempt < 3 THEN hc_pc' = "attempt" /\ hc_ret' = "none"
              ELSE hc_pc' = "done" /\ hc_ret' = "false"
      ]_vars

\* what holds of the verification: true exactly on "sc" 0, a failed attempt on any
\* other JSON answer, and an error on an answer that is no JSON or on a transport error
VerificationVerdict ==
    [][ /\ (hc_ret' = "true" /\ hc_ret # "true") => (hc_pc = "verify" /\ verified' = "sc0")
        /\ (hc_pc = "verify" /\ hc_pc' # hc_pc /\ verified' = "sc0") => hc_ret' = "true"
        /\ (hc_pc = "verify" /\ hc_pc' # hc_pc /\ verified' \in {"sc1", "nosc"}) =>
              IF hc_attempt < 3 THEN hc_pc' = "attempt" /\ hc_ret' = "none"
              ELSE hc_pc' = "done" /\ hc_ret' = "false"
        /\ (hc_pc = "verify" /\ hc_pc' # hc_pc /\ verified' \in {"notjson", "transport"}) =>
              hc_pc' = "done" /\ hc_ret' \in HcErrors
      ]_vars

---------------------------------------------------------------------------
(* prepare_session and the pump loop of js::evaluate *)

MAX_POLL_ITERATIONS_More == 500 + 1
MAX_POLL_ITERATIONS == 500

\* how fetch_status can end: the data, a transport error, a non-success status, no
\* x-vqd-hash-1 header, a header that is no text, a body that is no StatusResponse
StatusOutcomes == {"ok", "transport", "status", "noheader", "badheader", "badbody"}

fetch_status(o) ==
    CASE o = "ok" -> "ok"
      [] o = "transport" -> "requesting /duckchat/v1/status"
      [] o = "status" -> "status request failed"
      [] o = "noheader" -> "status response missing x-vqd-hash-1 header"
      [] o = "badheader" -> "parsing x-vqd-hash-1 header"
      [] OTHER -> "parsing status body"

\* how the landing page can end: both markers, a transport error, an error reading
\* the body, no backend version marker, no frontend marker
LandingOutcomes == {"ok", "transport", "read", "nobe", "nofe"}

fetch_fe_version(o) ==
    CASE o = "ok" -> "ok"
      [] o = "transport" -> "requesting DuckDuckGo homepage"
      [] o = "read" -> "reading homepage body"
      [] o = "nobe" -> "missing __DDG_BE_VERSION__ marker"
      [] OTHER -> "missing FE hash marker"

\* what run_jobs can leave in the two globals
ResultValues == {"undefined", "wellformed", "malformed"}
ErrorValues == {"undefined", "set"}

\* one turn of the pump loop after run_jobs: the error sentinel, then the result
\* sentinel, then the deadline and the iteration cap, else a sleep
Poll_TimeoutFirst(result, error, late, n) ==
    IF late \/ n >= MAX_POLL_ITERATIONS THEN "TimeoutError"
    ELSE IF error # "undefined" THEN "ScriptError"
    ELSE IF result = "wellformed" THEN "hashes"
    ELSE IF result = "malformed" THEN "DeserializationError"
    ELSE "sleep"
Poll(result, error, late, n) ==
    IF error # "undefined" THEN "ScriptError"
    ELSE IF result = "wellformed" THEN "hashes"
    ELSE IF result = "malformed" THEN "DeserializationError"
    ELSE IF late \/ n >= MAX_POLL_ITERATIONS THEN "TimeoutError"
    ELSE "sleep"

\* the most client hashes in one result of the script
MaxHashes == 3

\* the raw client hashes the script can leave: a user agent and a number
RawHashes == {"FakeUA/1.0", "6419"}

RECURSIVE SeqsUpTo(_, _)
SeqsUpTo(S, n) ==
    IF n = 0 THEN {<<>>}
    ELSE SeqsUpTo(S, n - 1) \cup
         {Append(s, x) : s \in {t \in SeqsUpTo(S, n - 1) : Len(t) = n - 1}, x \in S}

ClientHashLists == SeqsUpTo(RawHashes, MaxHashes)

\* SHA-256 and standard Base64 of the UTF-8 bytes of a text, for the texts of the
\* model (the digest of "hello" is the one of the test hashes_base64)
sha256_base64(value) ==
    CASE value = "FakeUA/1.0" -> "saPmJOW6as0K+RGoGjk36xQW8NAvzf41rMs74Qvsmew="
      [] value = "6419" -> "M8YqKjNq43yiDvIV8lgD3mPZ33ajkaNe/s5K0nlZMk4="
      [] value = "5072" -> "lge/nVTUGa+gGDEny9TtA4vk7cKGwUe2CadyoVe3b8Y="
      [] value = "hello" -> "LPJNul+wow4m6DsqxbninhsWHlwfp0JecwQzYpOLmCQ="
      [] value = "" -> "47DEQpj8HBSa+/TImW+5JCeuQeRkm5NMpJWZG3hSuFU="

RECURSIVE HashAll_Distinct(_)
HashAll_Distinct(hashes) ==
    IF hashes = <<>> THEN <<>>
    ELSE LET rest == HashAll_Distinct(Tail(hashes))
             d == sha256_base64(Head(hashes))
         IN  IF \E i \in DOMAIN rest : rest[i] = d THEN rest ELSE <<d>> \o rest

\* `eval.client_hashes.iter().map(|value| sha256_base64(value)).collect()`
HashAll(hashes) == [i \in DOMAIN hashes |-> sha256_base64(hashes[i])]

\* `?` of prepare_session: only a step that succeeded is followed by the next
Proceed_Always(outcome) == TRUE
Proceed(outcome) == outcome = "ok"

\* where `?` leaves prepare_session when the step `name` failed: the call returns,
\* no step is run again
Failed_Again(name) == name
Failed(name) == "done"

Step(name, outcome) == [name |-> name, outcome |-> outcome]

InitNegotiate ==
    /\ ps_pc = "fetch_status"
    /\ steps = <<>>
    /\ iterations = 0
    /\ sleeps = 0
    /\ duckai_result = "undefined"
    /\ duckai_error = "undefined"
    /\ expired = FALSE
    /\ ev_ret = "none"
    /\ ps_ret = "none"
    /\ client_hashes = <<>>
    /\ hashed_client = <<>>
    /\ raw_client = <<>>
    /\ run_pc = "prepare"
    /\ ChatIdle
    /\ ResolveIdle
    /\ ExtractIdle
    /\ ParseIdle
    /\ LayersIdle
    /\ FacadeIdle

\* `fetch_status(session).await?`
FetchStatus(o) ==
    /\ ps_pc = "fetch_status"
    /\ steps' = Append(steps, Step("fetch_status", fetch_status(o)))
    /\ IF Proceed(fetch_status(o))
       THEN ps_pc' = "evaluate" /\ ps_ret' = ps_ret
       ELSE ps_pc' = Failed("fetch_status") /\ ps_ret' = fetch_status(o)
    /\ UNCHANGED <<iterations, sleeps, duckai_result, duckai_error, expired, ev_ret>>
    /\ UNCHANGED <<client_hashes, hashed_client, raw_client, run_pc>>
    /\ UNCHANGED notNegotiate

\* js::evaluate up to the loop: the runtime is loaded, the globals are set, the entry
\* point is called; either evaluation may fail
StartEvaluate(ok) ==
    /\ ps_pc = "evaluate"
    /\ IF ok
       THEN /\ steps' = Append(steps, Step("evaluate", "running"))
            /\ ps_pc' = "pump"
            /\ UNCHANGED <<ev_ret, ps_ret>>
       ELSE /\ steps' = Append(steps, Step("evaluate", "evaluating duckai runtime"))
            /\ ev_ret' = "evaluating duckai runtime"
            /\ ps_ret' = "evaluating duckai runtime"
            /\ ps_pc' = Failed("evaluate")
    /\ iterations' = 0
    /\ UNCHANGED <<sleeps, duckai_result, duckai_error, expired>>
    /\ UNCHANGED <<client_hashes, hashed_client, raw_client, run_pc>>
    /\ UNCHANGED notNegotiate

\* one turn of the pump loop: run_jobs, the two globals, the clock; `hashes` is the
\* client_hashes member of a well-formed result
PumpTurn(result, error, late, hashes) ==
    /\ ps_pc = "pump"
    /\ duckai_result' = result
    /\ duckai_error' = error
    /\ expired' = (expired \/ late)
    /\ LET out == Poll(result, error, expired', iterations)
       IN  IF out = "sleep"
           THEN /\ iterations' = iterations + 1
                /\ sleeps' = sleeps + 1
                /\ UNCHANGED <<ps_pc, steps, ev_ret, ps_ret, client_hashes>>
           ELSE /\ ev_ret' = out
                /\ client_hashes' = IF out = "hashes" THEN hashes ELSE client_hashes
                /\ steps' = SetLast(steps, "outcome", IF out = "hashes" THEN "ok" ELSE out)
                /\ IF Proceed(IF out = "hashes" THEN "ok" ELSE out)
                   THEN ps_pc' = "encode" /\ ps_ret' = ps_ret
                   ELSE ps_pc' = Failed("evaluate") /\ ps_ret' = out
                /\ UNCHANGED <<iterations, sleeps>>
    /\ UNCHANGED <<hashed_client, raw_client, run_pc>>
    /\ UNCHANGED notNegotiate

\* the client hashes are hashed and the header is encoded: no failure
EncodeHeader ==
    /\ ps_pc = "encode"
    /\ steps' = Append(steps, Step("encode", "ok"))
    /\ hashed_client' = HashAll(client_hashes)
    /\ ps_pc' = "fetch_fe_version"
    /\ UNCHANGED <<iterations, sleeps, duckai_result, duckai_error, expired, ev_ret, ps_ret>>
    /\ UNCHANGED <<client_hashes, raw_client, run_pc>>
    /\ UNCHANGED notNegotiate

\* `fetch_fe_version(session).await?`, then the VqdSession
FetchFeVersion(o) ==
    /\ ps_pc = "fetch_fe_version"
    /\ steps' = Append(steps, Step("fetch_fe_version", fetch_fe_version(o)))
    /\ ps_pc' = IF Proceed(fetch_fe_version(o)) THEN "done" ELSE Failed("fetch_fe_version")
    /\ ps_ret' = IF Proceed(fetch_fe_version(o)) THEN "VqdSession" ELSE fetch_fe_version(o)
    /\ raw_client' = IF Proceed(fetch_fe_version(o)) THEN client_hashes ELSE raw_client
    /\ UNCHANGED <<iterations, sleeps, duckai_result, duckai_error, expired, ev_ret>>
    /\ UNCHANGED <<client_hashes, hashed_client, run_pc>>
    /\ UNCHANGED notNegotiate

\* the caller after `vqd::prepare_session(&session).await?`: an error leaves `run`
\* with Err; with a VqdSession `run` returns when only the token was asked for and
\* calls send_chat otherwise
Run(only_vqd) ==
    /\ run_pc = "prepare"
    /\ ps_pc = "done"
    /\ run_pc' = IF ps_ret # "VqdSession" THEN "failed"
                 ELSE IF only_vqd THEN "returned" ELSE "send_chat"
    /\ UNCHANGED <<ps_pc, steps, iterations, sleeps, duckai_result, duckai_error,
                   expired, ev_ret, ps_ret, client_hashes, hashed_client, raw_client>>
    /\ UNCHANGED notNegotiate

NextNegotiate ==
    \/ \E o \in StatusOutcomes : FetchStatus(o)
    \/ \E ok \in BOOLEAN : StartEvaluate(ok)
    \/ \E result \in ResultValues : \E error \in ErrorValues : \E late \in BOOLEAN :
          \E hashes \in ClientHashLists : PumpTurn(result, error, late, hashes)
    \/ EncodeHeader
    \/ \E o \in LandingOutcomes : FetchFeVersion(o)
    \/ \E only_vqd \in BOOLEAN : Run(only_vqd)

SpecNegotiate == InitNegotiate /\ [][NextNegotiate]_vars

\* every turn of the pump loop returns: run_jobs and thread::sleep come back
SpecNegotiateFair ==
    SpecNegotiate /\ WF_vars(\E result \in ResultValues : \E error \in ErrorValues :
                                \E late \in BOOLEAN : \E hashes \in ClientHashLists :
                                   PumpTurn(result, error, late, hashes))

\* every step of prepare_session and of its caller is taken: the requests are answered
SpecRunFair == SpecNegotiate /\ WF_vars(NextNegotiate)

---------------------------------------------------------------------------
(* What the claims about prepare_session and the pump loop speak of *)

PumpOutcomes == {"ScriptError", "hashes", "DeserializationError", "TimeoutError"}

StepOrder == <<"fetch_status", "evaluate", "encode", "fetch_fe_version">>

PsReturned == ps_pc = "done"

\* C19: the pump loop ends, with one outcome that is never replaced: ScriptError when
\* the error sentinel is set; else the hashes for a well-formed result and
\* DeserializationError for a malformed one; TimeoutError when neither sentinel is set
\* and the deadline has passed or 500 iterations were made.  It sleeps at most 500
\* times.
C19_PumpTerminates ==
    /\ [][ /\ sleeps' <= 500
           /\ (ev_ret # "none") => (ev_ret' = ev_ret)
           /\ (ps_pc = "pump" /\ ps_pc' # "pump") =>
                 /\ ev_ret' \in PumpOutcomes
                 /\ (duckai_error' = "set") => (ev_ret' = "ScriptError")
                 /\ (duckai_error' = "undefined" /\ duckai_result' = "wellformed") =>
                       (ev_ret' = "hashes")
                 /\ (duckai_error' = "undefined" /\ duckai_result' = "malformed") =>
                       (ev_ret' = "DeserializationError")
                 /\ (duckai_error' = "undefined" /\ duckai_result' = "undefined") =>
                       (ev_ret' = "TimeoutError" /\ (expired' \/ iterations >= 500))
           /\ (ps_pc = "pump" /\ ps_pc' = "pump" /\ sleeps' # sleeps) =>
                 /\ duckai_error' = "undefined" /\ duckai_result' = "undefined"
                 /\ ~expired' /\ iterations < 500
         ]_vars
    /\ (ps_pc = "pump") ~> (ps_pc # "pump" /\ ev_ret \in PumpOutcomes)

C19_Witness ==
    /\ ev_ret = "TimeoutError" /\ sleeps = 500 /\ iterations = 500 /\ ~expired
    /\ duckai_result = "undefined" /\ duckai_error = "undefined"

\* C20: the steps of prepare_session start in the order status fetch, sandbox
\* evaluation, hashing and encoding, landing page; a step starts only after every
\* step before it succeeded; a failed step ends the call with its error and without a
\* VqdSession; a VqdSession is returned only after all four steps succeeded.
C20_StepsInOrder ==
    /\ Len(steps) <= Len(StepOrder)
    /\ \A i \in DOMAIN steps : steps[i].name = StepOrder[i]
    /\ \A i \in 1..(Len(steps) - 1) : steps[i].outcome = "ok"
    /\ (steps # <<>> /\ Last(steps).outcome \notin {"ok", "running"}) =>
          PsReturned /\ ps_ret = Last(steps).outcome
    /\ PsReturned =>
          /\ steps # <<>>
          /\ IF ps_ret = "VqdSession"
             THEN Len(steps) = 4 /\ \A i \in DOMAIN steps : steps[i].outcome = "ok"
             ELSE ps_ret = Last(steps).outcome /\ ps_ret # "ok"

C20_Witness ==
    /\ PsReturned /\ ps_ret = "status response missing x-vqd-hash-1 header"
    /\ Len(steps) = 1

\* the call that succeeds went through the four steps
C20_WitnessToken ==
    PsReturned /\ ps_ret = "VqdSession" /\ Len(steps) = 4 /\ sleeps = 3

\* whether the hashing step of prepare_session has run
Hashed == \E i \in DOMAIN steps : steps[i].name = "encode"

\* C21: once the client hashes are hashed, hashed_client has the length of the
\* script's client_hashes and its i-th entry is the SHA-256/Base64 digest of the i-th
\* raw entry, duplicates kept; the VqdSession's raw_client is the script's
\* client_hashes unchanged.
C21_HashesInOrder ==
    /\ Hashed =>
          /\ Len(hashed_client) = Len(client_hashes)
          /\ \A i \in DOMAIN client_hashes :
                hashed_client[i] = sha256_base64(client_hashes[i])
    /\ (PsReturned /\ ps_ret = "VqdSession") => (Hashed /\ raw_client = client_hashes)

C21_Witness ==
    /\ PsReturned /\ ps_ret = "VqdSession"
    /\ raw_client = <<"6419", "FakeUA/1.0", "6419">>
    /\ hashed_client = <<"M8YqKjNq43yiDvIV8lgD3mPZ33ajkaNe/s5K0nlZMk4=",
                         "saPmJOW6as0K+RGoGjk36xQW8NAvzf41rMs74Qvsmew=",
                         "M8YqKjNq43yiDvIV8lgD3mPZ33ajkaNe/s5K0nlZMk4=">>

\* how many times the step `name` of prepare_session was started
Started(name) == Cardinality({i \in DOMAIN steps : steps[i].name = name})

\* C22: in one call of prepare_session the status endpoint is requested at most once,
\* the sandbox is run at most once and the landing page is requested at most once,
\* whether the call succeeds or fails.
C22_NoInternalRetry ==
    /\ Started("fetch_status") <= 1
    /\ Started("evaluate") <= 1
    /\ Started("fetch_fe_version") <= 1
    /\ PsReturned => Started("fetch_status") = 1

\* a call that failed at the last step, after one request of each kind
C22_Witness ==
    /\ PsReturned /\ ps_ret = "missing FE hash marker"
    /\ Started("fetch_status") = 1 /\ Started("evaluate") = 1
    /\ Started("fetch_fe_version") = 1

\* prepare_session returned an error
PsFailed == PsReturned /\ ps_ret # "VqdSession"

\* C23: when prepare_session fails, the whole procedure is run again, from the status
\* fetch.
C23_FailureRerun == PsFailed ~> (ps_pc = "fetch_status" \/ Started("fetch_status") > 1)

---------------------------------------------------------------------------
(* extract_fe_version: the landing page and the three patterns *)

\* The page is a sequence of chars.  Four ASCII runs are kept as one element each:
\* the two marker names, the text wpm.chat. that opens the script filename and the
\* text .js that closes it.  No other element of the model contains a dot.
BeMarker == "__DDG_BE_VERSION__"
FeMarker == "__DDG_FE_CHAT_HASH__"
ScriptOpen == "wpm.chat."
ScriptClose == ".js"

\* the most pieces in one landing page
MaxParts == 3

\* the pieces a landing page is made of: the backend marker assigned "b", assigned
\* "b2" with white space around the equals sign, assigned the empty text; the frontend
\* hash marker assigned "f", and its bare name; a script filename with the hash "s",
\* and one with an empty hash; other text
Parts ==
    { <<BeMarker, "=", Quote, "b", Quote>>,
      <<BeMarker, SP, "=", LF, Quote, "b", "2", Quote>>,
      <<BeMarker, "=", Quote, Quote>>,
      <<FeMarker, "=", Quote, "f", Quote>>,
      <<FeMarker>>,
      <<ScriptOpen, "s", ScriptClose>>,
      <<ScriptOpen, ScriptClose>>,
      <<"x">> }

Pages == SeqsUpTo(Parts, MaxParts)

\* the first position from i on whose element is not in the set `run`, or the
\* position after the text: where a greedy repetition over `run` ends
RunEnd(s, i, run) ==
    LET stops == {j \in i..Len(s) : s[j] \notin run}
    IN  IF stops = {} THEN Len(s) + 1 ELSE Min(stops)

\* the elements of the model's pages
PageChars == UNION {{part[i] : i \in DOMAIN part} : part \in Parts}

\* `\s`, `[^"]` and `[^."]` over the elements of the model
WhiteChars == {c \in PageChars : IsWhite(c)}
ValueChars == PageChars \ {Quote}
HashChars == PageChars \ {Quote, ScriptOpen, ScriptClose}

\* `name\s*=\s*"([^"]+)"` tried at position i: the capture, or <<>> for no match
Assigned(s, i, name) ==
    IF i > Len(s) \/ s[i] # name THEN <<>>
    ELSE LET eq == RunEnd(s, i + 1, WhiteChars)
         IN  IF eq > Len(s) \/ s[eq] # "=" THEN <<>>
             ELSE LET q == RunEnd(s, eq + 1, WhiteChars)
                  IN  IF q > Len(s) \/ s[q] # Quote THEN <<>>
                      ELSE LET end == RunEnd(s, q + 1, ValueChars)
                           IN  IF end > Len(s) THEN <<>>
                               ELSE SubSeq(s, q + 1, end - 1)

\* `wpm\.chat\.([^."]+)\.js` tried at position i: the capture, or <<>> for no match
Scripted(s, i) ==
    IF i > Len(s) \/ s[i] # ScriptOpen THEN <<>>
    ELSE LET end == RunEnd(s, i + 1, HashChars)
         IN  IF end > Len(s) \/ s[end] # ScriptClose THEN <<>>
             ELSE SubSeq(s, i + 1, end - 1)

\* Regex::captures(html), group 1: the capture of the leftmost match, or <<>> for None
\* (a capture is never empty: both patterns capture with `+`)
BE_VERSION_RE(s) ==
    LET hits == {i \in DOMAIN s : Assigned(s, i, BeMarker) # <<>>}
    IN  IF hits = {} THEN <<>> ELSE Assigned(s, Min(hits), BeMarker)

FE_HASH_RE(s) ==
    LET hits == {i \in DOMAIN s : Assigned(s, i, FeMarker) # <<>>}
    IN  IF hits = {} THEN <<>> ELSE Assigned(s, Min(hits), FeMarker)

FE_SCRIPT_RE(s) ==
    LET hits == {i \in DOMAIN s : Scripted(s, i) # <<>>}
    IN  IF hits = {} THEN <<>> ELSE Scripted(s, Min(hits))

Version(value) == [kind |-> "ok", value |-> value, error |-> ""]
MarkerMissing(error) == [kind |-> "err", value |-> <<>>, error |-> error]

\* the frontend marker: the hash marker, or else the script filename
FeHash_ScriptFirst(s) == IF FE_SCRIPT_RE(s) # <<>> THEN FE_SCRIPT_RE(s) ELSE FE_HASH_RE(s)
FeHash(s) == IF FE_HASH_RE(s) # <<>> THEN FE_HASH_RE(s) ELSE FE_SCRIPT_RE(s)

extract_fe_version_NoBackend(s) ==
    IF FeHash(s) = <<>> THEN MarkerMissing("missing FE hash marker")
    ELSE Version(BE_VERSION_RE(s) \o <<"-">> \o FeHash(s))

extract_fe_version(s) ==
    IF BE_VERSION_RE(s) = <<>> THEN MarkerMissing("missing __DDG_BE_VERSION__ marker")
    ELSE IF FeHash(s) = <<>> THEN MarkerMissing("missing FE hash marker")
    ELSE Version(BE_VERSION_RE(s) \o <<"-">> \o FeHash(s))

InitExtract ==
    /\ html_parts \in Pages
    /\ html = Concat(html_parts)
    /\ fe_ret = NoVersion
    /\ ChatIdle
    /\ ResolveIdle
    /\ NegotiateIdle
    /\ ParseIdle
    /\ LayersIdle
    /\ FacadeIdle

ExtractFeVersion ==
    /\ fe_ret = NoVersion
    /\ fe_ret' = extract_fe_version(html)
    /\ UNCHANGED <<html_parts, html>>
    /\ UNCHANGED notExtract

NextExtract == ExtractFeVersion

SpecExtract == InitExtract /\ [][NextExtract]_vars

---------------------------------------------------------------------------
(* What the claims about extract_fe_version speak of *)

\* what the pieces of a page assign, piece by piece
BeToken(part) ==
    IF part = <<BeMarker, "=", Quote, "b", Quote>> THEN <<"b">>
    ELSE IF part = <<BeMarker, SP, "=", LF, Quote, "b", "2", Quote>> THEN <<"b", "2">>
    ELSE <<>>
HashToken(part) == IF part = <<FeMarker, "=", Quote, "f", Quote>> THEN <<"f">> ELSE <<>>
ScriptToken(part) == IF part = <<ScriptOpen, "s", ScriptClose>> THEN <<"s">> ELSE <<>>

\* the first token of a list of tokens that is not <<>>, or <<>>
FirstToken(tokens) ==
    LET has == {i \in DOMAIN tokens : tokens[i] # <<>>}
    IN  IF has = {} THEN <<>> ELSE tokens[Min(has)]

Extracted == fe_ret # NoVersion

\* C24: extract_fe_version fails with a marker-missing error when the page has no
\* backend-version marker, or neither the frontend hash marker nor the versioned
\* script filename; otherwise it returns the backend token, a hyphen and the frontend
\* marker.
C24_MarkerMissing ==
    Extracted =>
       LET be == FirstToken([i \in DOMAIN html_parts |-> BeToken(html_parts[i])])
           hash == FirstToken([i \in DOMAIN html_parts |-> HashToken(html_parts[i])])
           script == FirstToken([i \in DOMAIN html_parts |-> ScriptToken(html_parts[i])])
       IN  IF be = <<>> \/ (hash = <<>> /\ script = <<>>)
           THEN fe_ret.kind = "err" /\ fe_ret.error \in
                   {"missing __DDG_BE_VERSION__ marker", "missing FE hash marker"}
           ELSE /\ fe_ret.kind = "ok"
                /\ \E fe \in {hash, script} \ {<<>>} : fe_ret.value = be \o <<"-">> \o fe

\* a page with the backend marker and a script filename only
C24_Witness ==
    /\ Extracted
    /\ html_parts = << <<ScriptOpen, "s", ScriptClose>>,
                       <<BeMarker, SP, "=", LF, Quote, "b", "2", Quote>> >>
    /\ fe_ret = Version(<<"b", "2", "-", "s">>)

\* a page with the backend marker and no frontend marker
C24_WitnessMissing ==
    /\ Extracted
    /\ html_parts = << <<BeMarker, "=", Quote, "b", Quote>>, <<FeMarker>>,
                       <<ScriptOpen, ScriptClose>> >>
    /\ fe_ret = MarkerMissing("missing FE hash marker")

---------------------------------------------------------------------------
(* parse_tile_selection on its own *)

\* the longest input text, in chars, and the largest length
MaxInput == 4
MaxLen == 3

\* the chars of an input text: digits, signs, delimiters, a letter
InputChars == {"0", "1", "2", "+", "-", ",", SP, TAB, "x"}

InitParse ==
    /\ pt_input \in SeqsUpTo(InputChars, MaxInput)
    /\ pt_len \in 0..MaxLen
    /\ pt_ret = NotParsed
    /\ ChatIdle
    /\ ResolveIdle
    /\ NegotiateIdle
    /\ ExtractIdle
    /\ LayersIdle
    /\ FacadeIdle

ParseTileSelection ==
    /\ ~pt_ret.done
    /\ pt_ret' = [done |-> TRUE, indices |-> parse_tile_selection(pt_input, pt_len)]
    /\ UNCHANGED <<pt_input, pt_len>>
    /\ UNCHANGED notParse

NextParse == ParseTileSelection

SpecParse == InitParse /\ [][NextParse]_vars

---------------------------------------------------------------------------
(* What the claim about parse_tile_selection speaks of *)

\* the tokens of a text: the longest non-empty stretches without a delimiter
TokenSpans(s) ==
    {<<a, b>> \in (DOMAIN s) \X (DOMAIN s) :
        /\ a <= b
        /\ \A i \in a..b : s[i] \notin {SP, TAB, CR, LF, ","}
        /\ a = 1 \/ s[a - 1] \in {SP, TAB, CR, LF, ","}
        /\ b = Len(s) \/ s[b + 1] \in {SP, TAB, CR, LF, ","}}

\* whether a token is written as the non-negative integer v: digits, after an optional
\* plus sign
Writes(token, v) ==
    LET ds == IF token[1] = "+" THEN Tail(token) ELSE token
    IN  /\ ds # <<>>
        /\ \A i \in DOMAIN ds : ds[i] \in {"0", "1", "2", "3", "4", "5", "6", "7", "8", "9"}
        /\ Decimal(ds) = v

\* C25: parse_tile_selection returns a strictly ascending list that holds exactly the
\* values v < len written by a token of the input, the tokens being delimited by
\* commas and white space; every other token is dropped.
C25_ParseTileSelection ==
    pt_ret.done =>
       LET out == pt_ret.indices
       IN  /\ \A i \in DOMAIN out : \A j \in DOMAIN out : i < j => out[i] < out[j]
           /\ \A i \in DOMAIN out : out[i] \in 0..(pt_len - 1)
           /\ \A v \in 0..(pt_len - 1) :
                 (\E i \in DOMAIN out : out[i] = v) <=>
                 (\E sp \in TokenSpans(pt_input) :
                     Writes(SubSeq(pt_input, sp[1], sp[2]), v))

\* "2 -1" and "+01" over length 3; white space, a negative token, a sign, a leading zero
C25_Witness ==
    /\ pt_ret.done /\ pt_len = 3
    /\ pt_input = <<"2", TAB, "-", "1">>
    /\ pt_ret.indices = <<2>>

C25_WitnessSorted ==
    /\ pt_ret.done /\ pt_len = 2
    /\ pt_input = <<"1", ",", "0", "1">>
    /\ pt_ret.indices = <<1>>

C25_WitnessOrder ==
    /\ pt_ret.done /\ pt_len = 2
    /\ pt_input = <<"1", ",", "+", "0">>
    /\ pt_ret.indices = <<0, 1>>

---------------------------------------------------------------------------
(* What the claim about the token of send_chat speaks of *)

\* C26: every POST of one call of send_chat, the first and each retry, carries the
\* header value and the frontend version of the VqdSession the call was given; no
\* step of prepare_session runs during the call, and no step of send_chat, the
\* resolver's answer included, changes the VqdSession.
C26_SameToken ==
    /\ [](/\ Len(sentHeaders) = posts
          /\ \A i \in DOMAIN sentHeaders :
                /\ sentHeaders[i] = sentHeaders[1]
                /\ sentHeaders[i].x_vqd_hash_1 = vqd.vqd_header
                /\ sentHeaders[i].x_fe_version = vqd.fe_version)
    /\ [][vqd' = vqd /\ negotiateVars' = negotiateVars]_vars

\* a call that sent three times, after two solved challenges
C26_Witness ==
    /\ Len(sentHeaders) = 3 /\ resolverCalls = 2 /\ pc = "done" /\ ret.status = 200
    /\ sentHeaders[3].x_vqd_hash_1 = "eyJzZXJ2ZXJfaGFzaGVzIjpbXX0="

---------------------------------------------------------------------------
(* What the claim about the rolling buffer speaks of *)

\* whether a text holds a frame terminator
HoldsTerminator(b) ==
    \/ \E i \in 1..(Len(b) - 1) : b[i] = LF /\ b[i + 1] = LF
    \/ \E i \in 1..(Len(b) - 3) :
          b[i] = CR /\ b[i + 1] = LF /\ b[i + 2] = CR /\ b[i + 3] = LF

\* whether a text ends with a frame terminator
EndsFrame(b) ==
    \/ Len(b) >= 2 /\ b[Len(b) - 1] = LF /\ b[Len(b)] = LF
    \/ Len(b) >= 4 /\ SubSeq(b, Len(b) - 3, Len(b)) = <<CR, LF, CR, LF>>

\* C27: while the sink is alive the rolling buffer holds no frame terminator; a chunk
\* that is processed with the sink alive afterwards leaves in the buffer the end of
\* the buffered text after its last terminator, and the data lines of everything
\* before it were sent to the sink, in order.
C27_BufferHoldsNoFrame ==
    /\ [](event_tx = "some" => ~HoldsTerminator(sse_buffer))
    /\ [][ (pc = "stream" /\ pos' > pos /\ status = 200 /\ event_tx' = "some") =>
             LET full == sse_buffer \o SubSeq(body', Len(body) + 1, Len(body'))
                 cut  == Len(full) - Len(sse_buffer')
             IN  /\ cut >= 0
                 /\ sse_buffer' = SubSeq(full, cut + 1, Len(full))
                 /\ cut > 0 => EndsFrame(SubSeq(full, 1, cut))
                 /\ sinkLog' = sinkLog \o DataPayloads(SubSeq(full, 1, cut))
          ]_vars

\* a frame was sent and the start of the next one is held back
C27_Witness ==
    /\ pc = "stream" /\ status = 200 /\ event_tx = "some" /\ rxAlive
    /\ sinkLog # <<>> /\ sse_buffer # <<>> /\ Len(frames) = 2 /\ pos < Len(resp)

---------------------------------------------------------------------------
(* What the claims about the submissions speak of *)

\* the selections that went through the hand-off cell
Delivered == selection_rx.sent

\* C28: a selection that went through the hand-off cell is not empty, is strictly
\* ascending, and holds only ordinals below the number of staged assets, whatever
\* list was posted.
C28_DeliveredIsValid ==
    \A d \in DOMAIN Delivered :
       LET sel == Delivered[d]
       IN  /\ sel # <<>>
           /\ \A i \in DOMAIN sel : \A j \in DOMAIN sel : i < j => sel[i] < sel[j]
           /\ \A i \in DOMAIN sel : sel[i] \in 0..(Len(assets) - 1)

\* the list 1, 0, 1 was posted and 0, 1 was delivered
C28_Witness ==
    /\ Delivered = << <<0, 1>> >>
    /\ \E r \in DOMAIN requests :
          requests[r].posted = <<1, 0, 1>> /\ requests[r].code = 200

\* the request r is answered in this step
Answered(r) == requests[r].pc # "done" /\ requests'[r].pc = "done"

\* C29: a submission without a valid ordinal (an empty list, or every ordinal out of
\* range) is answered 400, and only such a submission is; the step that answers 400
\* changes neither the hand-off cell nor the channel; a valid submission that finds
\* the sender in the cell delivers its selection, after a rejected one as well.
C29_RejectedLeavesCell ==
    [][ \A r \in DOMAIN requests :
          Answered(r) =>
             /\ (requests'[r].code = 400) <=>
                    (\A i \in DOMAIN requests'[r].posted :
                        requests'[r].posted[i] >= Len(assets))
             /\ (requests'[r].code = 400) =>
                    (selection_tx' = selection_tx /\ selection_rx' = selection_rx)
             /\ (requests'[r].code # 400 /\ selection_tx = "some") =>
                    /\ selection_rx'.sent = <<requests[r].selections>>
                    /\ selection_tx' = "none"
      ]_vars

\* a rejected submission, then a valid one that is delivered
C29_Witness ==
    /\ Len(requests) = 2
    /\ requests[1].code = 400 /\ requests[1].posted = <<7>>
    /\ requests[2].code = 200 /\ requests[2].posted = <<0>>
    /\ Delivered = << <<0>> >>

\* C30: while the surface runs, the ordinal the page writes for a listed tile
\* addresses that tile: the image route answers it with that tile's image, and a
\* submission of it is in range; also after a tile was skipped.
C30_OrdinalAddressesTile ==
    surface = "running" =>
       \A k \in DOMAIN assets :
          LET ordinal == challenge_page(assets)[k]
          IN  /\ tile_image(assets, ordinal) = [code |-> 200, image |-> assets[k].tile_id]
              /\ Validate(<<ordinal>>, Len(assets)) = <<ordinal>>

---------------------------------------------------------------------------
(* What the claim about the verified tile ids speaks of *)

\* C31: every tile id of a verification request is the id of a saved tile that the
\* selection designated, the tile listed under that ordinal; the ids are in the order
\* of the ordinals, without duplicates; the id of a skipped tile is never sent.
C31_VerifiedIdsWereShown ==
    (hc_pc = "verify") =>
       /\ \A i \in DOMAIN selected_ids :
             \E k \in DOMAIN assets :
                /\ assets[k].tile_id = selected_ids[i]
                /\ \E j \in DOMAIN selected_indices : selected_indices[j] = assets[k].index
       /\ \A i \in DOMAIN selected_ids : \A j \in DOMAIN selected_ids :
             i < j => selected_ids[i] # selected_ids[j]

---------------------------------------------------------------------------
(* What the claim about the prompt fallback speaks of *)

\* C32: an attempt whose surface failed to start asks at the prompt, as the same
\* attempt; once an attempt asked at the prompt no surface is started any more, and
\* every later attempt asks at the prompt.
C32_PromptFallback ==
    [][ /\ (hc_pc = "attempt" /\ hc_pc' # hc_pc) =>
              /\ hc_attempt' = hc_attempt + 1
              /\ hc_pc' \in {"wait", "prompt"}
              /\ (prompts > 0 \/ ~use_web) => (hc_pc' = "prompt" /\ ~use_web')
        /\ (hc_pc = "prompt" /\ hc_pc' # hc_pc) =>
              /\ hc_attempt' = hc_attempt
              /\ prompts' = prompts + 1
              /\ surface' = "none"
        /\ (prompts > 0) => (surfaceStarts' = surfaceStarts /\ surface' = "none")
        /\ prompts' <= hc_attempt'
      ]_vars

\* the first attempt had its surface, the second fell back, the third asked at the
\* prompt at once
C32_Witness ==
    /\ surfaceStarts = 1 /\ prompts = 2 /\ hc_attempt = 3 /\ ~use_web
    /\ hc_pc = "judge"

---------------------------------------------------------------------------
(* What the claim about the sink and the attempts speaks of *)

\* C33: the sink is sent something only during an attempt whose status is 200, and
\* an attempt with status 200 is followed by no other attempt: when a POST is issued
\* the sink has received nothing yet.
C33_OneAttemptOnSink ==
    [][ /\ (sinkLog' # sinkLog) => (status = 200 /\ pc = "stream")
        /\ (posts' # posts) => (status # 200 /\ sinkLog = <<>>)
        /\ (status = 200) => (posts' = posts /\ attempt' = attempt)
      ]_vars

\* two challenges were solved without a word to the sink, the third attempt streamed
C33_Witness ==
    /\ posts = 3 /\ pc = "done" /\ ret.status = 200 /\ rxAlive
    /\ Len(sinkLog) >= 2 /\ Last(sinkLog) = DoneSentinel

---------------------------------------------------------------------------
(* send_chat around handle_challenge: the two retry loops, one inside the other *)

\* the outcomes of one selection: none, none in range, some in range, a prompt error
RoundOutcomes == {"empty", "invalid", "valid", "error"}

\* what handle_challenge meets before its loop: no tile list, a failed save, no
\* saved tile, or tiles to select from
PreambleOutcomes == {"notiles", "saveerror", "noassets", "assets"}

\* `let mut attempt = 0usize;` of handle_challenge
AttemptAtEntry_Carried(carried) == carried
AttemptAtEntry(carried) == 0

\* one turn of `for attempt in 0..=MAX_RETRIES` up to the end of the response
LyPost(st, parses) ==
    /\ ly_pc = "send"
    /\ ly_attempt <= MAX_RETRIES
    /\ IF AfterStream(st, parses) = "resolve"
       THEN /\ ly_pc' = "preamble"
            /\ ly_calls' = ly_calls + 1
            /\ ly_hc_attempt' = AttemptAtEntry(ly_hc_attempt)
            /\ ly_ret' = ly_ret
       ELSE /\ ly_pc' = "done"
            /\ ly_ret' = "response"
            /\ UNCHANGED <<ly_calls, ly_hc_attempt>>
    /\ UNCHANGED <<ly_attempt, ly_rounds, ly_verifies>>
    /\ UNCHANGED notLayers

\* handle_challenge returning `solved` to send_chat
LyReturn(solved) ==
    IF Retry(solved) /\ ly_attempt < MAX_RETRIES
    THEN /\ ly_attempt' = ly_attempt + 1
         /\ ly_pc' = "send"
         /\ ly_ret' = ly_ret
    ELSE /\ ly_pc' = "done"
         /\ ly_attempt' = ly_attempt
         /\ ly_ret' = CASE solved = "error" -> "error"
                        [] Retry(solved) -> "exhausted"
                        [] OTHER -> "response"

\* handle_challenge up to its loop
LyPreamble(o) ==
    /\ ly_pc = "preamble"
    /\ CASE o = "assets" -> /\ ly_pc' = "round"
                            /\ UNCHANGED <<ly_attempt, ly_ret>>
         [] o = "saveerror" -> LyReturn("error")
         [] OTHER -> LyReturn("false")
    /\ UNCHANGED <<ly_calls, ly_hc_attempt, ly_rounds, ly_verifies>>
    /\ UNCHANGED notLayers

\* one turn of the loop of handle_challenge up to the verification
LyRound(o) ==
    /\ ly_pc = "round"
    /\ ly_hc_attempt' = ly_hc_attempt + 1
    /\ ly_rounds' = ly_rounds + 1
    /\ CASE o = "valid" -> /\ ly_pc' = "verify"
                           /\ UNCHANGED <<ly_attempt, ly_ret>>
         [] o = "error" -> LyReturn("error")
         [] OTHER -> IF GiveUp(ly_hc_attempt')
                     THEN LyReturn("false")
                     ELSE UNCHANGED <<ly_pc, ly_attempt, ly_ret>>
    /\ UNCHANGED <<ly_calls, ly_verifies>>
    /\ UNCHANGED notLayers

\* verify_challenge and what follows it
LyVerify(o) ==
    /\ ly_pc = "verify"
    /\ ly_verifies' = ly_verifies + 1
    /\ CASE verify_challenge(o) = "true" -> LyReturn("true")
         [] verify_challenge(o) = "false" ->
                IF GiveUp(ly_hc_attempt)
                THEN LyReturn("false")
                ELSE /\ ly_pc' = "round"
                     /\ UNCHANGED <<ly_attempt, ly_ret>>
         [] OTHER -> LyReturn("error")
    /\ UNCHANGED <<ly_calls, ly_hc_attempt, ly_rounds>>
    /\ UNCHANGED notLayers

InitLayers ==
    /\ ChatIdle
    /\ ResolveIdle
    /\ NegotiateIdle
    /\ ExtractIdle
    /\ ParseIdle
    /\ ly_pc = "send"
    /\ ly_attempt = 0
    /\ ly_calls = 0
    /\ ly_hc_attempt = 0
    /\ ly_rounds = 0
    /\ ly_verifies = 0
    /\ ly_ret = "none"
    /\ FacadeIdle

NextLayers ==
    \/ \E st \in Statuses : \E parses \in BOOLEAN : LyPost(st, parses)
    \/ \E o \in PreambleOutcomes : LyPreamble(o)
    \/ \E o \in RoundOutcomes : LyRound(o)
    \/ \E o \in VerifyOutcomes : LyVerify(o)

SpecLayers == InitLayers /\ [][NextLayers]_vars

\* C34: one send_chat calls handle_challenge at most MAX_RETRIES + 1 = 3 times and
\* so causes at most 3 * MAX_ATTEMPTS = 9 selections and at most 9 verification
\* requests; each call of handle_challenge starts its attempt counter from zero.
C34_LayersCompound ==
    /\ [](/\ ly_calls <= 3
          /\ ly_rounds <= 9
          /\ ly_verifies <= 9
          /\ ly_verifies <= ly_rounds
          /\ ly_hc_attempt <= MAX_ATTEMPTS
          /\ ly_attempt <= MAX_RETRIES)
    /\ [][(ly_calls' # ly_calls) => (ly_calls' = ly_calls + 1 /\ ly_hc_attempt' = 0)]_vars

\* three calls of three selections each, every one of them verified, and the last
\* call entered after the counter of the one before had reached MAX_ATTEMPTS
C34_Witness ==
    /\ ly_calls = 3 /\ ly_rounds = 9 /\ ly_verifies = 9
    /\ ly_pc = "done"

---------------------------------------------------------------------------
(* What the claim about the order of the outcomes of a poll speaks of *)

\* C35: a turn of the pump loop decides in the order error sentinel, result
\* sentinel, timeout: with the error sentinel set it ends with ScriptError whatever
\* the result sentinel holds; with only the result sentinel set it ends with the
\* result (or the failure to read it), also at the last permitted poll and past the
\* deadline; it ends with TimeoutError or sleeps only when neither is set.
C35_PollOrder ==
    [][ (ps_pc = "pump") =>
          /\ (duckai_error' # "undefined") =>
                (ps_pc' # "pump" /\ ev_ret' = "ScriptError")
          /\ (duckai_error' = "undefined" /\ duckai_result' # "undefined") =>
                /\ ps_pc' # "pump"
                /\ ev_ret' = IF duckai_result' = "wellformed" THEN "hashes"
                             ELSE "DeserializationError"
          /\ (ps_pc' = "pump" \/ ev_ret' = "TimeoutError") =>
                (duckai_error' = "undefined" /\ duckai_result' = "undefined")
      ]_vars

\* both sentinels set at the last permitted poll, past the deadline: ScriptError
C35_Witness ==
    /\ ev_ret = "ScriptError"
    /\ duckai_result = "wellformed" /\ duckai_error = "set"
    /\ iterations = MAX_POLL_ITERATIONS /\ expired

\* the result sentinel set at the last permitted poll, past the deadline: the result
C35_WitnessHonoured ==
    /\ ev_ret = "hashes"
    /\ duckai_result = "wellformed" /\ duckai_error = "undefined"
    /\ iterations = MAX_POLL_ITERATIONS /\ expired

---------------------------------------------------------------------------
(* What the claim about the wait for the hand-off speaks of *)

\* the hand-off channel holds no selection and its sender is not dropped
Pending == selection_rx.sent = <<>> /\ ~selection_rx.closed

\* C36: the wait for the hand-off has no timeout.  While the resolver waits and the
\* channel holds no selection and is not closed, the resolver stays in the wait:
\* the attempt counter keeps its value and the call does not return, whatever
\* else happens (rejected submissions included).  An attempt ends its wait only
\* with a selection sent or the channel closed, and ends its prompt only with an
\* answer of the prompt; the next attempt starts, and the call returns from its
\* loop, only after the attempt before has collected its selection that way.
C36_WaitHasNoTimeout ==
    [][ /\ (hc_pc = "wait" /\ Pending) =>
              (hc_pc' = "wait" /\ hc_attempt' = hc_attempt /\ hc_ret' = hc_ret)
        /\ (hc_pc = "wait" /\ hc_pc' # "wait") =>
              (selection_rx.sent # <<>> \/ selection_rx.closed)
        /\ (hc_pc = "prompt" /\ hc_pc' # "prompt") => prompts' = prompts + 1
        /\ (hc_attempt' # hc_attempt) => collected = hc_attempt
        /\ (hc_ret' # hc_ret /\ hc_attempt > 0) =>
              (collected' = hc_attempt \/ hc_ret' = "prompt")
      ]_vars

\* the resolver still waits in its first attempt after every request the surface
\* can take in the model was answered 400
C36_Witness ==
    /\ hc_pc = "wait" /\ surface = "running" /\ Pending
    /\ hc_attempt = 1 /\ hc_ret = "none"
    /\ \A r \in DOMAIN requests : requests[r].pc = "done" /\ requests[r].code = 400

---------------------------------------------------------------------------
(* What the claim about the two frontend markers speaks of *)

\* C37: on a page with a backend marker, the frontend marker of the result is the
\* value of the hash marker whenever the page has one, wherever the script filename
\* stands; the script filename is used only on a page without a hash marker.
C37_HashMarkerFirst ==
    Extracted =>
       LET be == FirstToken([i \in DOMAIN html_parts |-> BeToken(html_parts[i])])
           hash == FirstToken([i \in DOMAIN html_parts |-> HashToken(html_parts[i])])
           script == FirstToken([i \in DOMAIN html_parts |-> ScriptToken(html_parts[i])])
       IN  /\ (be # <<>> /\ hash # <<>>) => fe_ret = Version(be \o <<"-">> \o hash)
           /\ (be # <<>> /\ hash = <<>> /\ script # <<>>) =>
                 fe_ret = Version(be \o <<"-">> \o script)
           /\ (fe_ret.kind = "ok" /\ fe_ret.value = be \o <<"-">> \o script) => hash = <<>>

\* a page with the script filename first, then the hash marker, then the backend
\* marker: the hash marker is taken
C37_Witness ==
    /\ Extracted
    /\ html_parts = << <<ScriptOpen, "s", ScriptClose>>,
                       <<FeMarker, "=", Quote, "f", Quote>>,
                       <<BeMarker, "=", Quote, "b", Quote>> >>
    /\ fe_ret = Version(<<"b", "-", "f">>)

---------------------------------------------------------------------------
(* The HTTP facade: chat_completions, src/src/server.rs *)

\* the most payloads the upstream delivers in one response
MaxPayloads == 3

\* an Option: None is <<>>, Some(x) is <<x>>
None == <<>>
Some(x) == <<x>>

\* the configured keys, and `args.server_api_key.map(|key| format!("Bearer {key}"))`
ApiKeys == {None, Some(<<"k">>)}
auth_header(key) == IF key = None THEN None ELSE Some(<<"Bearer", SP>> \o key[1])

\* the Authorization headers of the model: none, the key with and without the
\* scheme, with whitespace around, another key, another scheme, bytes that are no text
HeaderValue(visible, value) == [visible |-> visible, value |-> value]
AuthorizationHeaders ==
    { None,
      Some(HeaderValue(TRUE, <<"Bearer", SP, "k">>)),
      Some(HeaderValue(TRUE, <<SP, "Bearer", SP, "k", SP>>)),
      Some(HeaderValue(TRUE, <<"Bearer", SP, "x">>)),
      Some(HeaderValue(TRUE, <<"k">>)),
      Some(HeaderValue(TRUE, <<"Basic", SP, "k">>)),
      Some(HeaderValue(FALSE, <<"Bearer", SP, "k">>)) }

\* authorize: "ok" or the message of the 401
authorize_Missing(expected, header) ==
    IF header = None \/ expected = None THEN "ok"
    ELSE IF header[1].visible /\ Trim(header[1].value) = expected[1] THEN "ok"
    ELSE "invalid API key provided"
authorize(expected, header) ==
    IF expected = None THEN "ok"
    ELSE LET provided == IF header # None /\ header[1].visible
                         THEN Some(Trim(header[1].value)) ELSE None
         IN  IF provided = None THEN "missing Authorization header with Bearer token"
             ELSE IF provided[1] = expected[1] THEN "ok"
             ELSE "invalid API key provided"

\* the bodies of the model: a ChatCompletionRequest, text that is no JSON, JSON that
\* is no ChatCompletionRequest, a body without the JSON content type
Bodies_Facade == {"request", "syntax", "data", "mediatype"}

\* the Json extractor in front of the handler: 0 when the body is taken
JsonRejection(kind) ==
    CASE kind = "request" -> 0
      [] kind = "syntax" -> 400
      [] kind = "data" -> 422
      [] OTHER -> 415

\* what the checks on a taken body find: nothing, no message, a model not allowed,
\* a conversation that cannot be rendered
Validations == {"ok", "nomessages", "badmodel", "norender"}

Requests ==
    { r \in [authorization : AuthorizationHeaders, body : Bodies_Facade,
             stream : BOOLEAN, validation : Validations] :
        r.body # "request" => (~r.stream /\ r.validation = "ok") }

\* how the upstream work of one request can end: no HTTP session, a negotiation
\* failure, a chat send error, or a response with its status
UpstreamOutcomes == {"nosession", "noprepare", "chaterror", "418", "500", "200"}

\* the calls made up to the end of the upstream work
UpstreamWork(o) ==
    CASE o = "nosession" -> <<"HttpSession::new">>
      [] o = "noprepare" -> <<"HttpSession::new", "prepare_session">>
      [] OTHER -> <<"HttpSession::new", "prepare_session", "send_chat">>

\* the status of the answer of chat_completions_non_stream
NonStreamCode(o) ==
    CASE o \in {"nosession", "noprepare", "chaterror"} -> 500
      [] o = "418" -> 418
      [] o = "500" -> 500
      [] OTHER -> 200

\* the payloads send_chat forwards: the text of a data line
Payload(text, action, message) == [text |-> text, action |-> action, message |-> message]
DonePayload == Payload(DoneText, "", "")

\* a success with and without a message, an error with and without one, another
\* action, a blank line, text that is no JSON, and the sentinel of the upstream
UpstreamPayloads ==
    { Payload("json", "success", "hi"), Payload("json", "success", ""),
      Payload("json", "error", "boom"), Payload("json", "error", ""),
      Payload("json", "ping", ""), Payload("blank", "", ""), Payload("junk", "", ""),
      DonePayload }

\* an event of the public stream: who sent it, what it is, and its text or reason
Event(from, kind, arg) == [from |-> from, kind |-> kind, arg |-> arg]
DoneEvent(from) == Event(from, DoneText, "")

\* StreamFormatter::new
StreamFormatter == [sent_role |-> FALSE, finished |-> FALSE]

\* StreamFormatter::finish_chunk: the chunk with the finish_reason, once
finish_chunk(self, reason) ==
    IF self.finished THEN [chunks |-> <<>>, self |-> self]
    ELSE [chunks |-> <<Event("formatter", "finish", reason)>>,
          self |-> [self EXCEPT !.finished = TRUE]]

\* StreamFormatter::process_payload: the chunks of one payload
process_payload(self, data) ==
    IF data.text # "json" THEN [chunks |-> <<>>, self |-> self]
    ELSE IF data.action = "success"
    THEN [chunks |-> (IF ~self.sent_role
                      THEN <<Event("formatter", "role", "assistant")>> ELSE <<>>)
                     \o (IF data.message # ""
                         THEN <<Event("formatter", "content", data.message)>>
                         ELSE <<>>),
          self |-> [self EXCEPT !.sent_role = TRUE]]
    ELSE IF data.action = "error"
    THEN LET f == finish_chunk(self, "error")
         IN  [chunks |-> <<Event("formatter", "content",
                              IF data.message = "" THEN "upstream error"
                              ELSE data.message)>> \o f.chunks,
              self |-> f.self]
    ELSE [chunks |-> <<>>, self |-> self]

\* the end of the formatter task: the finish chunk if none was made, then the sentinel
LastChunks(self) == finish_chunk(self, "stop").chunks \o <<DoneEvent("formatter")>>

\* the Json extractor, in front of the handler
ExtractJson ==
    /\ fa_pc = "extract"
    /\ IF JsonRejection(request.body) = 0
       THEN fa_pc' = "authorize" /\ fa_code' = fa_code
       ELSE fa_pc' = "done" /\ fa_code' = JsonRejection(request.body)
    /\ UNCHANGED <<api_key, request, fa_work, wk_pc, raw_tx, raw_rx, forwarded, fm_pc,
                   formatter, fm_chunks, events>>
    /\ UNCHANGED notFacade

\* chat_completions up to the choice of the path
Authorize ==
    /\ fa_pc = "authorize"
    /\ IF authorize(auth_header(api_key), request.authorization) = "ok"
       THEN /\ fa_pc' = IF request.stream THEN "stream" ELSE "non_stream"
            /\ fa_code' = fa_code
       ELSE fa_pc' = "done" /\ fa_code' = 401
    /\ UNCHANGED <<api_key, request, fa_work, wk_pc, raw_tx, raw_rx, forwarded, fm_pc,
                   formatter, fm_chunks, events>>
    /\ UNCHANGED notFacade

\* chat_completions_non_stream
NonStream(o) ==
    /\ fa_pc = "non_stream"
    /\ fa_pc' = "done"
    /\ IF request.validation # "ok"
       THEN o = "200" /\ fa_code' = 400 /\ fa_work' = fa_work
       ELSE fa_code' = NonStreamCode(o) /\ fa_work' = fa_work \o UpstreamWork(o)
    /\ UNCHANGED <<api_key, request, wk_pc, raw_tx, raw_rx, forwarded, fm_pc, formatter,
                   fm_chunks, events>>
    /\ UNCHANGED notFacade

\* chat_completions_stream: the checks, then the public channel, the spawned task
\* and the event stream as the response
Stream ==
    /\ fa_pc = "stream"
    /\ fa_pc' = "done"
    /\ IF request.validation # "ok"
       THEN fa_code' = 400 /\ UNCHANGED <<fa_work, wk_pc>>
       ELSE fa_code' = 200 /\ fa_work' = Append(fa_work, "spawn") /\ wk_pc' = "start"
    /\ UNCHANGED <<api_key, request, raw_tx, raw_rx, forwarded, fm_pc, formatter,
                   fm_chunks, events>>
    /\ UNCHANGED notFacade

\* stream_chat_worker up to the spawn of the formatter task
WorkerStart ==
    /\ wk_pc = "start"
    /\ wk_pc' = "upstream"
    /\ raw_tx' = "some"
    /\ raw_rx' = <<>>
    /\ formatter' = StreamFormatter
    /\ fm_pc' = "recv"
    /\ UNCHANGED <<api_key, request, fa_pc, fa_code, fa_work, forwarded, fm_chunks, events>>
    /\ UNCHANGED notFacade

\* stream_chat_worker from HttpSession::new to the first byte of a 200 response, or
\* to its Err: a failed call, or a status that is not 200; the sender goes with it
WorkerUpstream(o) ==
    /\ wk_pc = "upstream"
    /\ fa_work' = fa_work \o UpstreamWork(o)
    /\ IF o = "200"
       THEN wk_pc' = "forward" /\ raw_tx' = raw_tx
       ELSE wk_pc' = "failed" /\ raw_tx' = "dropped"
    /\ UNCHANGED <<api_key, request, fa_pc, fa_code, raw_rx, forwarded, fm_pc, formatter,
                   fm_chunks, events>>
    /\ UNCHANGED notFacade

\* send_chat forwards one payload of the 200 response; a send to a receiver that is
\* gone drops the sender
WorkerForward(data) ==
    /\ wk_pc = "forward"
    /\ forwarded < MaxPayloads
    /\ forwarded' = forwarded + 1
    /\ IF raw_tx = "some" /\ fm_pc # "done"
       THEN raw_rx' = Append(raw_rx, data) /\ raw_tx' = raw_tx
       ELSE raw_rx' = raw_rx /\ raw_tx' = "dropped"
    /\ UNCHANGED <<api_key, request, fa_pc, fa_code, fa_work, wk_pc, fm_pc, formatter,
                   fm_chunks, events>>
    /\ UNCHANGED notFacade

\* the response stream fails under send_chat: stream_chat_worker returns its Err
WorkerStreamFails ==
    /\ wk_pc = "forward"
    /\ wk_pc' = "failed"
    /\ raw_tx' = "dropped"
    /\ UNCHANGED <<api_key, request, fa_pc, fa_code, fa_work, raw_rx, forwarded, fm_pc,
                   formatter, fm_chunks, events>>
    /\ UNCHANGED notFacade

\* the 200 response ends: send_chat sends its sentinel and stream_chat_worker
\* returns Ok
WorkerEndOfStream ==
    /\ wk_pc = "forward"
    /\ wk_pc' = "done"
    /\ raw_rx' = IF raw_tx = "some" /\ fm_pc # "done"
                 THEN Append(raw_rx, DonePayload) ELSE raw_rx
    /\ raw_tx' = "dropped"
    /\ UNCHANGED <<api_key, request, fa_pc, fa_code, fa_work, forwarded, fm_pc, formatter,
                   fm_chunks, events>>
    /\ UNCHANGED notFacade

\* the spawned task after an Err of stream_chat_worker: the error, then the sentinel
WrapperError ==
    /\ wk_pc = "failed"
    /\ wk_pc' = "error_sent"
    /\ events' = Append(events, Event("wrapper", "error_json", ""))
    /\ UNCHANGED <<api_key, request, fa_pc, fa_code, fa_work, raw_tx, raw_rx, forwarded,
                   fm_pc, formatter, fm_chunks>>
    /\ UNCHANGED notFacade

WrapperDone ==
    /\ wk_pc = "error_sent"
    /\ wk_pc' = "done"
    /\ events' = Append(events, DoneEvent("wrapper"))
    /\ UNCHANGED <<api_key, request, fa_pc, fa_code, fa_work, raw_tx, raw_rx, forwarded,
                   fm_pc, formatter, fm_chunks>>
    /\ UNCHANGED notFacade

\* the formatter task receives a payload: the sentinel ends it, another payload is
\* processed
FormatterRecv ==
    /\ fm_pc = "recv"
    /\ raw_rx # <<>>
    /\ raw_rx' = Tail(raw_rx)
    /\ IF Head(raw_rx) = DonePayload
       THEN /\ fm_chunks' = LastChunks(formatter)
            /\ formatter' = finish_chunk(formatter, "stop").self
            /\ fm_pc' = "last"
       ELSE /\ fm_chunks' = process_payload(formatter, Head(raw_rx)).chunks
            /\ formatter' = process_payload(formatter, Head(raw_rx)).self
            /\ fm_pc' = IF fm_chunks' = <<>> THEN "recv" ELSE "send"
    /\ UNCHANGED <<api_key, request, fa_pc, fa_code, fa_work, wk_pc, raw_tx, forwarded, events>>
    /\ UNCHANGED notFacade

\* the formatter task finds the raw channel empty and its sender gone
FormatterClosed ==
    /\ fm_pc = "recv"
    /\ raw_rx = <<>>
    /\ raw_tx = "dropped"
    /\ fm_chunks' = LastChunks(formatter)
    /\ formatter' = finish_chunk(formatter, "stop").self
    /\ fm_pc' = "last"
    /\ UNCHANGED <<api_key, request, fa_pc, fa_code, fa_work, wk_pc, raw_tx, raw_rx,
                   forwarded, events>>
    /\ UNCHANGED notFacade

\* the formatter task sends one chunk to the public stream
FormatterSend ==
    /\ fm_pc \in {"send", "last"}
    /\ fm_chunks # <<>>
    /\ events' = Append(events, Head(fm_chunks))
    /\ fm_chunks' = Tail(fm_chunks)
    /\ fm_pc' = IF fm_chunks' # <<>> THEN fm_pc
                ELSE IF fm_pc = "send" THEN "recv" ELSE "done"
    /\ UNCHANGED <<api_key, request, fa_pc, fa_code, fa_work, wk_pc, raw_tx, raw_rx,
                   forwarded, formatter>>
    /\ UNCHANGED notFacade

InitFacade ==
    /\ ChatIdle
    /\ ResolveIdle
    /\ NegotiateIdle
    /\ ExtractIdle
    /\ ParseIdle
    /\ LayersIdle
    /\ api_key \in ApiKeys
    /\ request \in Requests
    /\ fa_pc = "extract"
    /\ fa_code = 0
    /\ fa_work = <<>>
    /\ wk_pc = "idle"
    /\ raw_tx = "none"
    /\ raw_rx = <<>>
    /\ forwarded = 0
    /\ fm_pc = "idle"
    /\ formatter = StreamFormatter
    /\ fm_chunks = <<>>
    /\ events = <<>>

NextFacade ==
    \/ ExtractJson
    \/ Authorize
    \/ \E o \in UpstreamOutcomes : NonStream(o)
    \/ Stream
    \/ WorkerStart
    \/ \E o \in UpstreamOutcomes : WorkerUpstream(o)
    \/ \E data \in UpstreamPayloads : WorkerForward(data)
    \/ WorkerStreamFails
    \/ WorkerEndOfStream
    \/ WrapperError
    \/ WrapperDone
    \/ FormatterRecv
    \/ FormatterClosed
    \/ FormatterSend

SpecFacade == InitFacade /\ [][NextFacade]_vars

---------------------------------------------------------------------------
(* What the claims about the facade speak of *)

\* the places of the sentinel in the public event stream
Dones == {i \in DOMAIN events : events[i].kind = DoneText}

\* both tasks of a streaming request have ended
StreamOver == wk_pc = "done" /\ fm_pc = "done"

\* the worker task went through the Err of stream_chat_worker
WorkerFailed == \E i \in DOMAIN events : events[i].from = "wrapper"

\* C38: the public event stream of a streaming request carries the sentinel "[DONE]"
\* at most once, nothing follows it, and once both tasks have ended it carries it
\* exactly once: on a 200 response as on an upstream status that is not 200, a
\* negotiation failure and a chat send error.
C38_ExactlyOneDone ==
    /\ Cardinality(Dones) <= 1
    /\ \A i \in Dones : i = Len(events)
    /\ StreamOver => Cardinality(Dones) = 1

\* the same on the one path where stream_chat_worker returns Ok
C38_OneDoneOnOk ==
    ~WorkerFailed /\ wk_pc \notin {"failed", "error_sent"} =>
       /\ Cardinality(Dones) <= 1
       /\ \A i \in Dones : i = Len(events)
       /\ StreamOver => Cardinality(Dones) = 1

\* what the formatter task put on the public event stream, in order
IsChunk(e) == e.from = "formatter"
Chunks == SelectSeq(events, IsChunk)

\* C39: whatever the upstream payloads, the formatter emits the chunk with the
\* finish_reason at most once, exactly once before its "[DONE]", and nothing but
\* "[DONE]" follows it: no role chunk and no content chunk.
C39_FinishIsLast ==
    LET finishes == {i \in DOMAIN Chunks : Chunks[i].kind = "finish"}
    IN  /\ Cardinality(finishes) <= 1
        /\ \A i \in finishes : \A j \in DOMAIN Chunks : j > i => Chunks[j].kind = DoneText
        /\ \A j \in DOMAIN Chunks :
              Chunks[j].kind = DoneText => (j > 1 /\ Chunks[j - 1].kind = "finish")

\* the part of the claim that the code keeps: one finish chunk per stream, made
\* before the "[DONE]" of the formatter
C39_FinishOnce ==
    LET finishes == {i \in DOMAIN Chunks : Chunks[i].kind = "finish"}
    IN  /\ Cardinality(finishes) <= 1
        /\ \A j \in DOMAIN Chunks :
              Chunks[j].kind = DoneText => \E i \in finishes : i < j

\* the request was answered
Responded == fa_code # 0

\* the Authorization header is the text "Bearer <key>" for the configured key
ExactHeader ==
    /\ api_key # None
    /\ request.authorization = Some(HeaderValue(TRUE, <<"Bearer", SP>> \o api_key[1]))

\* the same with whitespace around it
PaddedHeader ==
    /\ api_key # None
    /\ request.authorization =
          Some(HeaderValue(TRUE, <<SP, "Bearer", SP>> \o api_key[1] \o <<SP>>))

\* no upstream work was started for the request
NoUpstreamWork ==
    /\ fa_work = <<>>
    /\ wk_pc = "idle" /\ fm_pc = "idle"
    /\ events = <<>>

\* C40, as stated: with a key configured, a request whose Authorization header is
\* missing or differs from "Bearer <key>" is answered 401 and starts no upstream
\* work; with no key configured no request is answered 401.
C40_Unauthorized401 ==
    /\ (api_key # None /\ ~ExactHeader) =>
          (NoUpstreamWork /\ (Responded => fa_code = 401))
    /\ (api_key = None /\ Responded) => fa_code # 401

\* C40, amended: a request whose body the Json extractor rejects is answered with
\* that rejection, whatever its Authorization header, and starts no upstream work.
\* A request whose body is taken is, with a key configured, answered 401 without
\* upstream work unless its Authorization header is the text "Bearer <key>", alone
\* or with whitespace around it; with such a header, or with no key configured, it
\* is never answered 401.
C40_UnauthorizedStartsNoWork ==
    /\ (JsonRejection(request.body) # 0) =>
          (NoUpstreamWork /\ (Responded => fa_code = JsonRejection(request.body)))
    /\ (JsonRejection(request.body) = 0 /\ api_key # None
          /\ ~ExactHeader /\ ~PaddedHeader) =>
          (NoUpstreamWork /\ (Responded => fa_code = 401) /\ (fa_pc = "done" => Responded))
    /\ (JsonRejection(request.body) = 0 /\ (api_key = None \/ ExactHeader \/ PaddedHeader)
          /\ Responded) => fa_code # 401

\* a streaming request with another key, answered 401
C40_Witness ==
    /\ api_key = Some(<<"k">>)
    /\ request.authorization = Some(HeaderValue(TRUE, <<"Bearer", SP, "x">>))
    /\ request.body = "request" /\ request.stream /\ request.validation = "ok"
    /\ fa_pc = "done" /\ fa_code = 401
    /\ NoUpstreamWork

=============================================================================
